---- MODULE Spec2Model ----
(***************************************************************************)
(* Approximate string comparison of picard/util/_astrcmp.c: the Python     *)
(* entry point astrcmp and the C function LevenshteinDistance, modelled    *)
(* statement by statement over an explicit heap.                           *)
(*                                                                         *)
(* Memory is a map from addresses to 4-byte words (Py_UCS4 and int are     *)
(* both one word).  Only live allocations are mapped; a load or store      *)
(* through an unmapped address faults.  A fresh malloc block holds         *)
(* indeterminate words (Junk); loading one yields any value.               *)
(* Allocation is assumed to succeed: the inputs are bounded by available   *)
(* memory, so the NULL results of malloc, PyUnicode_READY and              *)
(* PyUnicode_AsUCS4Copy are outside the model.                             *)
(***************************************************************************)
EXTENDS Integers, Sequences, FiniteSets, TLC

\* Bounds of the model.
MaxLen == 3
NumSyms == 3
NumThreads == 2
MaxPacket == 2
MaxChunk == 3
MaxBuffers == 3

----------------------------------------------------------------------------
\* Inputs.

CodePoints == 1 .. NumSyms

Texts == UNION {[1 .. n -> CodePoints] : n \in 0 .. MaxLen}

\* The code compares code points for equality only, so its behaviour does not
\* change when the code points of both sequences are renamed together.  The
\* first sequence is therefore drawn up to renaming: its first code point is
\* 1 and every further one is at most one above those before it.
Canonical(s) ==
    \A k \in 1 .. Len(s) : \A c \in 1 .. (s[k] - 1) : \E h \in 1 .. (k - 1) : s[h] = c

FirstTexts == {s \in Texts : Canonical(s)}

\* "kitten", "sitten", "sitting", "abcd", "acbd" as code points.
Kitten == <<107, 105, 116, 116, 101, 110>>
Sitten == <<115, 105, 116, 116, 101, 110>>
Sitting == <<115, 105, 116, 116, 105, 110, 103>>
Abcd == <<97, 98, 99, 100>>
Acbd == <<97, 99, 98, 100>>

Examples ==
    {<<Kitten, Sitten>>, <<Sitten, Kitten>>, <<Kitten, Sitting>>,
     <<Sitting, Kitten>>, <<Abcd, Acbd>>, <<Acbd, Abcd>>}

\* A Python object handed to astrcmp: a str, or something that is not one.
Str(s) == [type |-> "str", text |-> s]
NotStr == [type |-> "int", text |-> <<>>]

Objects == {Str(s) : s \in Texts} \cup {NotStr}

FirstObjects == {Str(s) : s \in FirstTexts} \cup {NotStr}

ArgTuples ==
    (FirstObjects \X Objects) \cup {<<Str(e[1]), Str(e[2])>> : e \in Examples}

\* The argument tuples of the decode functions: a file name, or something
\* that is not one.
FileTuples == {<<Str(<<1>>)>>, <<NotStr>>}

\* The argument tuples of the calls of the media specification.
MediaTuples ==
    FileTuples \cup {<<Str(<<1, 2>>), Str(<<2, 1>>)>>,
                     <<Str(<<1, 2>>), Str(<<>>)>>, <<NotStr, Str(<<1>>)>>}

\* The sample rates and channel counts a decoding library reports for a file
\* (ints taken from the file; the last rate is one for which
\* 135 * channels * sample_rate * 2 does not fit in an int).
SampleRates == {0, 8000, 15906576}
Channels == {1, 2}

\* The sizes in bytes of the buffers a pipeline hands over.
Chunks == {k * 270000 : k \in 1 .. MaxChunk}

\* The inputs of the threads of the concurrent specification.
ConcTuples ==
    {<<Str(<<1, 1, 2>>), Str(<<1, 2, 1>>)>>,
     <<Str(<<2, 1>>), Str(<<1, 2, 2>>)>>,
     <<Str(<<1, 2>>), Str(<<>>)>>}

----------------------------------------------------------------------------
\* Values.

Junk == 0 - 1

Indeterminate == 0 .. MaxLen

RECURSIVE GCD(_, _)
GCD(x, y) == IF y = 0 THEN x ELSE GCD(y, x % y)

Abs(x) == IF x < 0 THEN 0 - x ELSE x

\* A float, as the exact fraction <<numerator, denominator>> in lowest terms
\* (the operands here are far below 2^24, where (float) of an int is exact
\* and distinct fractions round to distinct floats); <<0, 0>> is NaN.
Float(n, m) ==
    IF m = 0 THEN <<0, 0>>
    ELSE LET g == GCD(Abs(n), Abs(m)) IN <<n \div g, m \div g>>

ZeroF == Float(0, 1)

OneF == Float(1, 1)

\* int arithmetic on a build where signed overflow wraps (two's complement,
\* 32 bits): x + y, and x * y for x >= 0.
Add32(x, y) ==
    IF x >= 0 /\ y >= 0 /\ x > 2147483647 - y
    THEN (x - 2147483647 - 1) + (y - 2147483647 - 1)
    ELSE IF x < 0 /\ y < 0 /\ x < (0 - 2147483647 - 1) - y
    THEN (x + 2147483647 + 1) + (y + 2147483647 + 1)
    ELSE x + y

\* 135 * channels * rate * 2 fits in an int.
ProductFits(channels, rate) ==
    channels = 0 \/ rate <= 2147483647 \div (270 * channels)

RECURSIVE Times32(_, _)
Times32(x, y) ==
    IF x = 0 THEN 0
    ELSE IF x % 2 = 1 THEN Add32(y, Times32(x - 1, y))
    ELSE LET half == Times32(x \div 2, y) IN Add32(half, half)

\* x <= y on floats that are not NaN.
FloatLE(x, y) == x[1] * y[2] <= y[1] * x[2]

----------------------------------------------------------------------------
\* The macros and the expressions of LevenshteinDistance's loop body.

MIN(x, y) == IF x > y THEN y ELSE x

MAX(x, y) == IF x > y THEN x ELSE y

\* MATRIX(a, b), with the matrix pointer and len1 it takes from its scope.
MATRIX(base, l1, a, b) == base + b * (l1 + 1) + a

\* Variant: the "+ 1" of both dimensions left out of the allocation.
MatrixSizeNoBorder(l1, l2) == l1 * l2

\* Variant: the second dimension taken from len1 as well.
MatrixSizeSquare(l1, l2) == (l1 + 1) * (l1 + 1)

\* sizeof(int) * (len1 + 1) * (len2 + 1) bytes, in words.
MatrixSize(l1, l2) == (l1 + 1) * (l2 + 1)

\* Variant: a length check that empty inputs pass.
IsEmptyNegative(len) == len < 0

\* Step 1: the two length checks.
IsEmpty(len) == len = 0

\* Step 5.
Cost(s1_cur, s2_cur) == IF s1_cur = s2_cur THEN 0 ELSE 1

\* Step 6.
\* Variant: the larger of the deletion/insertion and substitution candidates.
Step6Max(above, left, diagonal, cost) ==
    MAX(MIN(above + 1, left + 1), diagonal + cost)

Step6(above, left, diagonal, cost) ==
    MIN(MIN(above + 1, left + 1), diagonal + cost)

\* Step 6a.
\* Variants of the guard: one position early, one position late.
TransGuardEarly(i1, i2) == i1 > 1 /\ i2 > 1

TransGuardLate(i1, i2) == i1 > 3 /\ i2 > 3

TransGuard(i1, i2) == i1 > 2 /\ i2 > 2

\* Variants of trans: the second comparison left out; the initial "+ 1" left
\* out; both comparisons left out.
TransOneSided(far, s1_prev, s2_cur, s1_cur, s2_prev) ==
    far + 1 + (IF s1_prev # s2_cur THEN 1 ELSE 0)

TransNoBase(far, s1_prev, s2_cur, s1_cur, s2_prev) ==
    far + (IF s1_prev # s2_cur THEN 1 ELSE 0)
        + (IF s1_cur # s2_prev THEN 1 ELSE 0)

TransNoPenalty(far, s1_prev, s2_cur, s1_cur, s2_prev) == far + 1

Trans(far, s1_prev, s2_cur, s1_cur, s2_prev) ==
    far + 1 + (IF s1_prev # s2_cur THEN 1 ELSE 0)
            + (IF s1_cur # s2_prev THEN 1 ELSE 0)

\* Variant: the comparison of cell and trans the other way round.
Step6aFlipped(cell, trans) == IF cell < trans THEN trans ELSE cell

Step6a(cell, trans) == IF cell > trans THEN trans ELSE cell

\* Variant: the division by len1 instead of MAX(len1, len2).
Step7ByLen1(final, l1, l2) == Float(l1 - final, l1)

\* Step 7: (float)1 - ((float)MATRIX(len1, len2) / (float)MAX(len1, len2)).
Step7(final, l1, l2) == Float(MAX(l1, l2) - final, MAX(l1, l2))

\* The loop conditions.
\* Variant: the initialisation loops stop one iteration early.
InitCondStrict(index, len) == index < len

InitCond(index, len) == index <= len

\* Variant: the main loops stop one iteration early.
LoopCondStrict(index, len) == index < len

LoopCond(index, len) == index <= len

----------------------------------------------------------------------------
\* The heap.

VARIABLES
    heap,       \* mapped address -> word
    alloc       \* base address of a live block -> its size in words

Top == IF DOMAIN heap = {} THEN 0
       ELSE CHOOSE a \in DOMAIN heap : \A b \in DOMAIN heap : b <= a

Block(base, size) == base .. (base + size - 1)

\* malloc: the lowest block of `size` words that overlaps no live block.
Malloc(size) ==
    CHOOSE b \in 1 .. (Top + 1) :
        /\ Block(b, size) \cap DOMAIN heap = {}
        /\ \A c \in 1 .. (b - 1) : Block(c, size) \cap DOMAIN heap # {}

\* The heap after a block at `base` is mapped with the given words.
Mapped(base, words) ==
    [a \in DOMAIN heap \cup Block(base, Len(words)) |->
        IF a \in Block(base, Len(words)) THEN words[a - base + 1] ELSE heap[a]]

\* The heap after free(base).
Unmapped(base) ==
    [a \in DOMAIN heap \ Block(base, alloc[base]) |-> heap[a]]

\* The values a load can yield.
Load(a) == IF heap[a] = Junk THEN Indeterminate ELSE {heap[a]}

\* PyUnicode_AsUCS4Copy: the code points followed by a terminating 0.
UCS4(text) == Append(text, 0)

----------------------------------------------------------------------------
\* The threads.

VARIABLES
    args,       \* the argument tuple of each thread's call
    pc,         \* the statement each thread is about to execute
    gil,        \* the threads that hold the interpreter lock (at most one)
    save,       \* _save: the thread state released by Py_UNBLOCK_THREADS
    len1, len2, us1, us2, d, ret,                  \* astrcmp's locals, result
    matrix, index1, index2, s1_current, result,    \* LevenshteinDistance's
    ncells,     \* history: executions of the inner loop body
    hist,       \* history of each call's matrix: allocations, frees, stores
    av,         \* the locals of avcodec's decode
    ds,         \* directshow_decode's buffer and its CFakeCallback
    gst         \* gstreamer_decode's DecoderData, pipeline and bus

vars == <<heap, alloc, args, pc, gil, save, len1, len2, us1, us2, d, ret,
          matrix, index1, index2, s1_current, result, ncells, hist,
          av, ds, gst>>

Threads == DOMAIN pc

None == [kind |-> "none", val |-> ZeroF]
Null == [kind |-> "NULL", val |-> ZeroF]
PyFloat(f) == [kind |-> "float", val |-> f]

\* The history of a call that has not allocated yet: the numbers of malloc
\* and free calls for the matrix, the size asked for, the number of stores
\* into each word of the matrix, whether the matrix was accessed after its
\* free, and, for each time the transposition branch lowered a cell, the
\* number of its comparisons that failed (0, 1 or 2) and the difference of
\* the value stored and matrix[i-2][j-2]; and whether the call is one of the
\* legacy implementation.
NoHistory ==
    [mallocs |-> 0, frees |-> 0, size |-> 0, stores |-> <<>>,
     late |-> FALSE, lowered |-> {}, legacy |-> FALSE]

\* The history after an access to the matrix.
Touched(h) == [h EXCEPT !.late = @ \/ h.frees > 0]

\* The history after a store into word `k` of the matrix.
Stored(h, k) ==
    [Touched(h) EXCEPT !.stores =
        IF k \in DOMAIN @ THEN [@ EXCEPT ![k] = @ + 1] ELSE @]

\* avcodec's decode before its call: the build (with or without _WIN32), the
\* locals, the size of the block av_malloc returned (0: none), buffer_ptr as
\* the offset buffer_ptr - buffer, and as history the buffer_size computed at
\* line 283, the end of the bytes written so far and whether a write went
\* past the end of the block.
NoDecode ==
    [win32 |-> FALSE, channels |-> 0, sample_rate |-> 0, buffer_size |-> 0,
     buffer_ptr |-> 0, size |-> 0, output_size |-> 0, allocated |-> 0,
     initial |-> 0, written |-> 0, overrun |-> FALSE]

\* directshow_decode before its call: bytes, the size of the block malloc
\* returned, the callback's bytesLeft and buffer (as an offset), whether the
\* graph runs and whether the stream has completed, and as history the bytes
\* copied so far and whether a copy went past the end of the block.
NoGraph ==
    [bytes |-> 0, allocated |-> 0, bytesLeft |-> 0, buffer |-> 0,
     running |-> FALSE, completed |-> FALSE, copied |-> 0, overrun |-> FALSE]

\* gstreamer_decode before its call: the fields of DecoderData (audio_buffer
\* as the size of the block g_malloc returned, 0 for NULL, audio_buffer_cur
\* as an offset), whether the handoff signal is connected, the pipeline is
\* PLAYING and the sync handler is installed, the number of buffers handed
\* over, whether the stream has ended (EOS or ERROR posted), the messages
\* left on the bus, and as history whether a callback asked for the exit, the
\* bytes copied and whether a copy went past the end of the block.
NoPipeline ==
    [exit_loop |-> FALSE, audio_buffer |-> 0, audio_buffer_size |-> 0,
     audio_buffer_cur |-> 0, srate |-> 0, channels |-> 0,
     connected |-> FALSE, playing |-> FALSE, handler |-> FALSE,
     buffers |-> 0, ended |-> FALSE, bus |-> <<>>,
     requested |-> FALSE, copied |-> 0, overrun |-> FALSE]

InitFor(T, A) ==
    /\ args \in [T -> A]
    /\ pc = [t \in T |-> "call"]
    /\ gil = {}
    /\ save = [t \in T |-> {}]
    /\ heap = <<>>
    /\ alloc = <<>>
    /\ len1 = [t \in T |-> 0]
    /\ len2 = [t \in T |-> 0]
    /\ us1 = [t \in T |-> 0]
    /\ us2 = [t \in T |-> 0]
    /\ d = [t \in T |-> ZeroF]
    /\ ret = [t \in T |-> None]
    /\ matrix = [t \in T |-> 0]
    /\ index1 = [t \in T |-> 0]
    /\ index2 = [t \in T |-> 0]
    /\ s1_current = [t \in T |-> 0]
    /\ result = [t \in T |-> ZeroF]
    /\ ncells = [t \in T |-> 0]
    /\ hist = [t \in T |-> NoHistory]
    /\ av = NoDecode
    /\ ds = NoGraph
    /\ gst = NoPipeline

astrcmpLocals == <<len1, len2, us1, us2, d, ret>>
ldLocals == <<matrix, index1, index2, s1_current, result, ncells, hist>>
memory == <<heap, alloc>>
media == <<av, ds, gst>>

Goto(t, label) == pc' = [pc EXCEPT ![t] = label]

----------------------------------------------------------------------------
\* astrcmp.

\* The interpreter calls astrcmp on a thread that holds the interpreter lock.
Call(t) ==
    /\ pc[t] = "call"
    /\ gil = {}
    /\ gil' = {t}
    /\ Goto(t, "L155")
    /\ UNCHANGED <<memory, args, save, astrcmpLocals, ldLocals>>

\* if (!PyArg_ParseTuple(args, "UU", &s1, &s2)) return NULL;
ParseTuple(t) ==
    /\ pc[t] = "L155"
    /\ IF Len(args[t]) = 2 /\ args[t][1].type = "str"
                           /\ args[t][2].type = "str"
       THEN /\ Goto(t, "L158")
            /\ UNCHANGED <<gil, ret>>
       ELSE /\ Goto(t, "done")
            /\ ret' = [ret EXCEPT ![t] = Null]
            /\ gil' = {}
    /\ UNCHANGED <<memory, args, save, len1, len2, us1, us2, d, ldLocals>>

\* if (PyUnicode_READY(s1) == -1 || PyUnicode_READY(s2) == -1) return NULL;
Ready(t) ==
    /\ pc[t] = "L158"
    /\ Goto(t, "L161")
    /\ UNCHANGED <<memory, args, gil, save, astrcmpLocals, ldLocals>>

\* len1 = PyUnicode_GetLength(s1); len2 = PyUnicode_GetLength(s2);
GetLength(t) ==
    /\ pc[t] = "L161"
    /\ len1' = [len1 EXCEPT ![t] = Len(args[t][1].text)]
    /\ len2' = [len2 EXCEPT ![t] = Len(args[t][2].text)]
    /\ Goto(t, "L163")
    /\ UNCHANGED <<memory, args, gil, save, us1, us2, d, ret, ldLocals>>

\* us1 = PyUnicode_AsUCS4Copy(s1);
CopyS1(t) ==
    /\ pc[t] = "L163"
    /\ LET words == UCS4(args[t][1].text)
           base == Malloc(Len(words))
       IN /\ heap' = Mapped(base, words)
          /\ alloc' = (base :> Len(words)) @@ alloc
          /\ us1' = [us1 EXCEPT ![t] = base]
    /\ Goto(t, "L164")
    /\ UNCHANGED <<args, gil, save, len1, len2, us2, d, ret, ldLocals>>

\* us2 = PyUnicode_AsUCS4Copy(s2);
CopyS2(t) ==
    /\ pc[t] = "L164"
    /\ LET words == UCS4(args[t][2].text)
           base == Malloc(Len(words))
       IN /\ heap' = Mapped(base, words)
          /\ alloc' = (base :> Len(words)) @@ alloc
          /\ us2' = [us2 EXCEPT ![t] = base]
    /\ Goto(t, "L166")
    /\ UNCHANGED <<args, gil, save, len1, len2, us1, d, ret, ldLocals>>

\* Py_UNBLOCK_THREADS, then the call of LevenshteinDistance.
UnblockThreads(t) ==
    /\ pc[t] = "L166"
    /\ gil = {t}
    /\ gil' = {}
    /\ save' = [save EXCEPT ![t] = {t}]
    /\ Goto(t, "L69")
    /\ UNCHANGED <<memory, args, astrcmpLocals, ldLocals>>

\* Py_BLOCK_THREADS
BlockThreads(t) ==
    /\ pc[t] = "L168"
    /\ gil = {}
    /\ gil' = save[t]
    /\ save' = [save EXCEPT ![t] = {}]
    /\ Goto(t, "L170")
    /\ UNCHANGED <<memory, args, astrcmpLocals, ldLocals>>

\* PyMem_Free(us1);
FreeS1(t) ==
    /\ pc[t] = "L170"
    /\ heap' = Unmapped(us1[t])
    /\ alloc' = [b \in DOMAIN alloc \ {us1[t]} |-> alloc[b]]
    /\ Goto(t, "L171")
    /\ UNCHANGED <<args, gil, save, astrcmpLocals, ldLocals>>

\* PyMem_Free(us2);
FreeS2(t) ==
    /\ pc[t] = "L171"
    /\ heap' = Unmapped(us2[t])
    /\ alloc' = [b \in DOMAIN alloc \ {us2[t]} |-> alloc[b]]
    /\ Goto(t, "L173")
    /\ UNCHANGED <<args, gil, save, astrcmpLocals, ldLocals>>

\* return Py_BuildValue("f", d); the caller gives the lock up afterwards.
BuildValue(t) ==
    /\ pc[t] = "L173"
    /\ ret' = [ret EXCEPT ![t] = PyFloat(d[t])]
    /\ gil' = gil \ {t}
    /\ Goto(t, "done")
    /\ UNCHANGED <<memory, args, save, len1, len2, us1, us2, d, ldLocals>>

----------------------------------------------------------------------------
\* LevenshteinDistance(us1, len1, us2, len2).

\* if (len1 == 0) return 0.0f;
CheckLen1(t) ==
    /\ pc[t] = "L69"
    /\ IF IsEmpty(len1[t])
       THEN /\ d' = [d EXCEPT ![t] = ZeroF]
            /\ Goto(t, "L168")
       ELSE /\ Goto(t, "L72")
            /\ UNCHANGED d
    /\ UNCHANGED <<memory, args, gil, save, len1, len2, us1, us2, ret, ldLocals>>

\* if (len2 == 0) return 0.0f;
CheckLen2(t) ==
    /\ pc[t] = "L72"
    /\ IF IsEmpty(len2[t])
       THEN /\ d' = [d EXCEPT ![t] = ZeroF]
            /\ Goto(t, "L168")
       ELSE /\ Goto(t, "L78")
            /\ UNCHANGED d
    /\ UNCHANGED <<memory, args, gil, save, len1, len2, us1, us2, ret, ldLocals>>

\* matrix = malloc(sizeof(int) * (len1 + 1) * (len2 + 1)); index1 = 0;
AllocMatrix(t) ==
    /\ pc[t] = "L78"
    /\ LET size == MatrixSize(len1[t], len2[t])
           base == Malloc(size)
       IN /\ heap' = Mapped(base, [k \in 1 .. size |-> Junk])
          /\ alloc' = (base :> size) @@ alloc
          /\ matrix' = [matrix EXCEPT ![t] = base]
          /\ hist' = [hist EXCEPT ![t].mallocs = @ + 1, ![t].size = size,
                                  ![t].stores = [k \in 0 .. (size - 1) |-> 0]]
    /\ index1' = [index1 EXCEPT ![t] = 0]
    /\ Goto(t, "L80")
    /\ UNCHANGED <<args, gil, save, astrcmpLocals, index2, s1_current,
                   result, ncells>>

\* for (index1 = 0; index1 <= len1; index1++) MATRIX(index1, 0) = index1;
InitColumn(t) ==
    /\ pc[t] = "L80"
    /\ IF InitCond(index1[t], len1[t])
       THEN LET target == MATRIX(matrix[t], len1[t], index1[t], 0)
            IN IF target \in DOMAIN heap
               THEN /\ heap' = [heap EXCEPT ![target] = index1[t]]
                    /\ hist' = [hist EXCEPT ![t] =
                                    Stored(@, target - matrix[t])]
                    /\ index1' = [index1 EXCEPT ![t] = @ + 1]
                    /\ UNCHANGED <<pc, index2>>
               ELSE /\ Goto(t, "fault")
                    /\ UNCHANGED <<heap, index1, index2, hist>>
       ELSE /\ index2' = [index2 EXCEPT ![t] = 0]
            /\ Goto(t, "L83")
            /\ UNCHANGED <<heap, index1, hist>>
    /\ UNCHANGED <<alloc, args, gil, save, astrcmpLocals, matrix, s1_current,
                   result, ncells>>

\* for (index2 = 0; index2 <= len2; index2++) MATRIX(0, index2) = index2;
InitRow(t) ==
    /\ pc[t] = "L83"
    /\ IF InitCond(index2[t], len2[t])
       THEN LET target == MATRIX(matrix[t], len1[t], 0, index2[t])
            IN IF target \in DOMAIN heap
               THEN /\ heap' = [heap EXCEPT ![target] = index2[t]]
                    /\ hist' = [hist EXCEPT ![t] =
                                    Stored(@, target - matrix[t])]
                    /\ index2' = [index2 EXCEPT ![t] = @ + 1]
                    /\ UNCHANGED <<pc, index1>>
               ELSE /\ Goto(t, "fault")
                    /\ UNCHANGED <<heap, index1, index2, hist>>
       ELSE /\ index1' = [index1 EXCEPT ![t] = 1]
            /\ Goto(t, "L89")
            /\ UNCHANGED <<heap, index2, hist>>
    /\ UNCHANGED <<alloc, args, gil, save, astrcmpLocals, matrix, s1_current,
                   result, ncells>>

\* for (index1 = 1; index1 <= len1; index1++)
\*     { Py_UCS4 s1_current = s1[index1 - 1]; index2 = 1; ...
OuterLoop(t) ==
    /\ pc[t] = "L89"
    /\ IF LoopCond(index1[t], len1[t])
       THEN LET a == us1[t] + index1[t] - 1
            IN IF a \in DOMAIN heap
               THEN \E c \in Load(a) :
                        /\ s1_current' = [s1_current EXCEPT ![t] = c]
                        /\ index2' = [index2 EXCEPT ![t] = 1]
                        /\ Goto(t, "L96")
               ELSE /\ Goto(t, "fault")
                    /\ UNCHANGED <<s1_current, index2>>
       ELSE /\ Goto(t, "L139")
            /\ UNCHANGED <<s1_current, index2>>
    /\ UNCHANGED <<memory, args, gil, save, astrcmpLocals, matrix, index1,
                   result, ncells, hist>>

\* for (index2 = 1; index2 <= len2; index2++) { steps 5, 6 and 6a }
InnerLoop(t) ==
    /\ pc[t] = "L96"
    /\ IF LoopCond(index2[t], len2[t])
       THEN LET i == index1[t]
                j == index2[t]
                M(a, b) == MATRIX(matrix[t], len1[t], a, b)
                tr == TransGuard(i, j)
                reads == {us2[t] + j - 1, M(i - 1, j), M(i, j - 1),
                          M(i - 1, j - 1)}
                         \cup (IF tr THEN {M(i - 2, j - 2), us1[t] + i - 2,
                                           us2[t] + j - 2}
                               ELSE {})
                LoadIf(c, a) == IF c THEN Load(a) ELSE {0}
            IN IF reads \cup {M(i, j)} \subseteq DOMAIN heap
               THEN \E s2_current \in Load(us2[t] + j - 1),
                       above \in Load(M(i - 1, j)),
                       left \in Load(M(i, j - 1)),
                       diagonal \in Load(M(i - 1, j - 1)),
                       far \in LoadIf(tr, M(i - 2, j - 2)),
                       s1_prev \in LoadIf(tr, us1[t] + i - 2),
                       s2_prev \in LoadIf(tr, us2[t] + j - 2) :
                    LET cost == Cost(s1_current[t], s2_current)
                        cell == Step6(above, left, diagonal, cost)
                        trans == Trans(far, s1_prev, s2_current,
                                       s1_current[t], s2_prev)
                        final == IF tr THEN Step6a(cell, trans) ELSE cell
                        wins == tr /\ final # cell
                        misses == (IF s1_prev # s2_current THEN 1 ELSE 0)
                                  + (IF s1_current[t] # s2_prev THEN 1 ELSE 0)
                    IN /\ heap' = [heap EXCEPT ![M(i, j)] = final]
                       /\ hist' = [hist EXCEPT ![t] =
                              [Stored(@, M(i, j) - matrix[t]) EXCEPT
                                  !.lowered = IF wins
                                              THEN @ \cup {<<misses,
                                                             final - far>>}
                                              ELSE @]]
                       /\ index2' = [index2 EXCEPT ![t] = @ + 1]
                       /\ ncells' = [ncells EXCEPT ![t] = @ + 1]
                       /\ UNCHANGED <<pc, index1>>
               ELSE /\ Goto(t, "fault")
                    /\ UNCHANGED <<heap, index1, index2, ncells, hist>>
       ELSE /\ index1' = [index1 EXCEPT ![t] = @ + 1]
            /\ Goto(t, "L89")
            /\ UNCHANGED <<heap, index2, ncells, hist>>
    /\ UNCHANGED <<alloc, args, gil, save, astrcmpLocals, matrix, s1_current,
                   result>>

\* result = ((float)1 - ((float)MATRIX(len1, len2) / (float)MAX(len1, len2)));
ComputeResult(t) ==
    /\ pc[t] = "L139"
    /\ LET a == MATRIX(matrix[t], len1[t], len1[t], len2[t])
       IN IF a \in DOMAIN heap
          THEN \E final \in Load(a) :
                   /\ result' = [result EXCEPT ![t] =
                                    Step7(final, len1[t], len2[t])]
                   /\ hist' = [hist EXCEPT ![t] = Touched(@)]
                   /\ Goto(t, "L141")
          ELSE /\ Goto(t, "fault")
               /\ UNCHANGED <<result, hist>>
    /\ UNCHANGED <<memory, args, gil, save, astrcmpLocals, matrix, index1,
                   index2, s1_current, ncells>>

\* free(matrix);
FreeMatrix(t) ==
    /\ pc[t] = "L141"
    /\ IF matrix[t] \in DOMAIN alloc
       THEN /\ heap' = Unmapped(matrix[t])
            /\ alloc' = [b \in DOMAIN alloc \ {matrix[t]} |-> alloc[b]]
            /\ hist' = [hist EXCEPT ![t].frees = @ + 1]
            /\ Goto(t, "L143")
       ELSE /\ Goto(t, "fault")
            /\ UNCHANGED <<memory, hist>>
    /\ UNCHANGED <<args, gil, save, astrcmpLocals, matrix, index1, index2,
                   s1_current, result, ncells>>

\* return result;   (d = LevenshteinDistance(...) in astrcmp)
ReturnResult(t) ==
    /\ pc[t] = "L143"
    /\ d' = [d EXCEPT ![t] = result[t]]
    /\ Goto(t, "L168")
    /\ UNCHANGED <<memory, args, gil, save, len1, len2, us1, us2, ret, ldLocals>>

----------------------------------------------------------------------------
\* The legacy implementation (astrcmp.c).  Its statements are labelled "A"
\* followed by their line; it runs on the same machine as the current one.

\* Variant: the third candidate left out of the minimum.
min3NoThird(a, b, c) == IF b < a THEN b ELSE a

\* int min3(int a, int b, int c)
min3(a, b, c) ==
    LET mi == IF b < a THEN b ELSE a
    IN IF c < mi THEN c ELSE mi

\* Variant: a row of column_count cells, without the border column.
CellNoBorder(m, col, row, column_count) == m + col + (row * column_count)

\* The cell GetCellContents and PutCellContents address:
\* matrix + col + (row * (column_count + 1)).
Cell(m, col, row, column_count) == m + col + (row * (column_count + 1))

\* cell_count = (len1 + 1) * (len2 + 1) * sizeof(int), in words.
CellCount(l1, l2) == (l1 + 1) * (l2 + 1)

\* PyUnicode_AS_UNICODE: the buffer of a unicode object, its code units
\* followed by a terminating 0.
AsUnicode(text) == Append(text, 0)

\* The interpreter calls the astrcmp of astrcmp.c on a thread that holds the
\* interpreter lock.
LegacyCall(t) ==
    /\ pc[t] = "call"
    /\ gil = {}
    /\ gil' = {t}
    /\ hist' = [hist EXCEPT ![t].legacy = TRUE]
    /\ Goto(t, "A205")
    /\ UNCHANGED <<memory, args, save, astrcmpLocals, matrix, index1, index2,
                   s1_current, result, ncells>>

\* if (!PyArg_ParseTuple(args, "UU", &s1, &s2)) return NULL;
LegacyParseTuple(t) ==
    /\ pc[t] = "A205"
    /\ IF Len(args[t]) = 2 /\ args[t][1].type = "str"
                           /\ args[t][2].type = "str"
       THEN /\ Goto(t, "A208")
            /\ UNCHANGED <<gil, ret>>
       ELSE /\ Goto(t, "done")
            /\ ret' = [ret EXCEPT ![t] = Null]
            /\ gil' = {}
    /\ UNCHANGED <<memory, args, save, len1, len2, us1, us2, d, ldLocals>>

\* The arguments of the call of LevenshteinDistance:
\* PyUnicode_AS_UNICODE(s1), PyUnicode_GetSize(s1), and the same of s2.
LegacyArguments(t) ==
    /\ pc[t] = "A208"
    /\ LET words1 == AsUnicode(args[t][1].text)
           words2 == AsUnicode(args[t][2].text)
           base1 == Malloc(Len(words1))
           base2 == base1 + Len(words1)
       IN /\ heap' = [a \in DOMAIN heap \cup Block(base1, Len(words1))
                                        \cup Block(base2, Len(words2)) |->
                         IF a \in Block(base1, Len(words1))
                         THEN words1[a - base1 + 1]
                         ELSE IF a \in Block(base2, Len(words2))
                         THEN words2[a - base2 + 1]
                         ELSE heap[a]]
          /\ alloc' = (base1 :> Len(words1)) @@ (base2 :> Len(words2)) @@ alloc
          /\ us1' = [us1 EXCEPT ![t] = base1]
          /\ us2' = [us2 EXCEPT ![t] = base2]
    /\ len1' = [len1 EXCEPT ![t] = Len(args[t][1].text)]
    /\ len2' = [len2 EXCEPT ![t] = Len(args[t][2].text)]
    /\ Goto(t, "A94")
    /\ UNCHANGED <<args, gil, save, d, ret, ldLocals>>

\* if ((s1 == NULL) || (s2 == NULL)) return (float)0;
LegacyCheckNull(t) ==
    /\ pc[t] = "A94"
    /\ IF us1[t] = 0 \/ us2[t] = 0
       THEN /\ d' = [d EXCEPT ![t] = ZeroF]
            /\ Goto(t, "A210")
       ELSE /\ Goto(t, "A99")
            /\ UNCHANGED d
    /\ UNCHANGED <<memory, args, gil, save, len1, len2, us1, us2, ret, ldLocals>>

\* if (len1 == 0) return (float)len2;
LegacyCheckLen1(t) ==
    /\ pc[t] = "A99"
    /\ IF len1[t] = 0
       THEN /\ d' = [d EXCEPT ![t] = Float(len2[t], 1)]
            /\ Goto(t, "A210")
       ELSE /\ Goto(t, "A103")
            /\ UNCHANGED d
    /\ UNCHANGED <<memory, args, gil, save, len1, len2, us1, us2, ret, ldLocals>>

\* if (len2 == 0) return (float)len1;
LegacyCheckLen2(t) ==
    /\ pc[t] = "A103"
    /\ IF len2[t] = 0
       THEN /\ d' = [d EXCEPT ![t] = Float(len1[t], 1)]
            /\ Goto(t, "A210")
       ELSE /\ Goto(t, "A111")
            /\ UNCHANGED d
    /\ UNCHANGED <<memory, args, gil, save, len1, len2, us1, us2, ret, ldLocals>>

\* cell_count = (len1 + 1) * (len2 + 1) * sizeof(int);
\* matrix = (int *)malloc(cell_count); index1 = 0;
LegacyAllocMatrix(t) ==
    /\ pc[t] = "A111"
    /\ LET size == CellCount(len1[t], len2[t])
           base == Malloc(size)
       IN /\ heap' = Mapped(base, [k \in 1 .. size |-> Junk])
          /\ alloc' = (base :> size) @@ alloc
          /\ matrix' = [matrix EXCEPT ![t] = base]
          /\ hist' = [hist EXCEPT ![t].mallocs = @ + 1, ![t].size = size,
                                  ![t].stores = [k \in 0 .. (size - 1) |-> 0]]
    /\ index1' = [index1 EXCEPT ![t] = 0]
    /\ Goto(t, "A114")
    /\ UNCHANGED <<args, gil, save, astrcmpLocals, index2, s1_current,
                   result, ncells>>

\* for (index1 = 0; index1 <= len1; index1++)
\*     PutCellContents(matrix, index1, 0, len1, index1);
LegacyInitColumn(t) ==
    /\ pc[t] = "A114"
    /\ IF index1[t] <= len1[t]
       THEN LET target == Cell(matrix[t], index1[t], 0, len1[t])
            IN IF target \in DOMAIN heap
               THEN /\ heap' = [heap EXCEPT ![target] = index1[t]]
                    /\ hist' = [hist EXCEPT ![t] =
                                    Stored(@, target - matrix[t])]
                    /\ index1' = [index1 EXCEPT ![t] = @ + 1]
                    /\ UNCHANGED <<pc, index2>>
               ELSE /\ Goto(t, "fault")
                    /\ UNCHANGED <<heap, index1, index2, hist>>
       ELSE /\ index2' = [index2 EXCEPT ![t] = 0]
            /\ Goto(t, "A119")
            /\ UNCHANGED <<heap, index1, hist>>
    /\ UNCHANGED <<alloc, args, gil, save, astrcmpLocals, matrix, s1_current,
                   result, ncells>>

\* for (index2 = 0; index2 <= len2; index2++)
\*     PutCellContents(matrix, 0, index2, len1, index2);
LegacyInitRow(t) ==
    /\ pc[t] = "A119"
    /\ IF index2[t] <= len2[t]
       THEN LET target == Cell(matrix[t], 0, index2[t], len1[t])
            IN IF target \in DOMAIN heap
               THEN /\ heap' = [heap EXCEPT ![target] = index2[t]]
                    /\ hist' = [hist EXCEPT ![t] =
                                    Stored(@, target - matrix[t])]
                    /\ index2' = [index2 EXCEPT ![t] = @ + 1]
                    /\ UNCHANGED <<pc, index1>>
               ELSE /\ Goto(t, "fault")
                    /\ UNCHANGED <<heap, index1, index2, hist>>
       ELSE /\ index1' = [index1 EXCEPT ![t] = 1]
            /\ Goto(t, "A127")
            /\ UNCHANGED <<heap, index2, hist>>
    /\ UNCHANGED <<alloc, args, gil, save, astrcmpLocals, matrix, s1_current,
                   result, ncells>>

\* for (index1 = 1; index1 <= len1; index1++)
\*     { s1_current = s1[index1 - 1]; index2 = 1; ...
LegacyOuterLoop(t) ==
    /\ pc[t] = "A127"
    /\ IF index1[t] <= len1[t]
       THEN LET a == us1[t] + index1[t] - 1
            IN IF a \in DOMAIN heap
               THEN \E c \in Load(a) :
                        /\ s1_current' = [s1_current EXCEPT ![t] = c]
                        /\ index2' = [index2 EXCEPT ![t] = 1]
                        /\ Goto(t, "A134")
               ELSE /\ Goto(t, "fault")
                    /\ UNCHANGED <<s1_current, index2>>
       ELSE /\ Goto(t, "A189")
            /\ UNCHANGED <<s1_current, index2>>
    /\ UNCHANGED <<memory, args, gil, save, astrcmpLocals, matrix, index1,
                   result, ncells, hist>>

\* for (index2 = 1; index2 <= len2; index2++) { steps 5, 6 and 6a;
\*     PutCellContents(matrix, index1, index2, len1, cell); }
LegacyInnerLoop(t) ==
    /\ pc[t] = "A134"
    /\ IF index2[t] <= len2[t]
       THEN LET i == index1[t]
                j == index2[t]
                C(col, row) == Cell(matrix[t], col, row, len1[t])
                tr == (i > 2) /\ (j > 2)
                reads == {us2[t] + j - 1, C(i - 1, j), C(i, j - 1),
                          C(i - 1, j - 1)}
                         \cup (IF tr THEN {C(i - 2, j - 2), us1[t] + i - 2,
                                           us2[t] + j - 2}
                               ELSE {})
                LoadIf(c, a) == IF c THEN Load(a) ELSE {0}
            IN IF reads \cup {C(i, j)} \subseteq DOMAIN heap
               THEN \E s2_current \in Load(us2[t] + j - 1),
                       above \in Load(C(i - 1, j)),
                       left \in Load(C(i, j - 1)),
                       diagonal \in Load(C(i - 1, j - 1)),
                       far \in LoadIf(tr, C(i - 2, j - 2)),
                       s1_prev \in LoadIf(tr, us1[t] + i - 2),
                       s2_prev \in LoadIf(tr, us2[t] + j - 2) :
                    LET cost == IF s1_current[t] = s2_current THEN 0 ELSE 1
                        cell == min3(above + 1, left + 1, diagonal + cost)
                        misses == (IF s1_prev # s2_current THEN 1 ELSE 0)
                                  + (IF s1_current[t] # s2_prev THEN 1 ELSE 0)
                        trans == far + 1 + misses
                        final == IF tr /\ cell > trans THEN trans ELSE cell
                    IN /\ heap' = [heap EXCEPT ![C(i, j)] = final]
                       /\ hist' = [hist EXCEPT ![t] =
                              [Stored(@, C(i, j) - matrix[t]) EXCEPT
                                  !.lowered = IF tr /\ cell > trans
                                              THEN @ \cup {<<misses,
                                                             final - far>>}
                                              ELSE @]]
                       /\ index2' = [index2 EXCEPT ![t] = @ + 1]
                       /\ ncells' = [ncells EXCEPT ![t] = @ + 1]
                       /\ UNCHANGED <<pc, index1>>
               ELSE /\ Goto(t, "fault")
                    /\ UNCHANGED <<heap, index1, index2, ncells, hist>>
       ELSE /\ index1' = [index1 EXCEPT ![t] = @ + 1]
            /\ Goto(t, "A127")
            /\ UNCHANGED <<heap, index2, ncells, hist>>
    /\ UNCHANGED <<alloc, args, gil, save, astrcmpLocals, matrix, s1_current,
                   result>>

\* result = GetCellContents(matrix, len1, len2, len1);
\* (the int is kept as the fraction result / 1)
LegacyGetResult(t) ==
    /\ pc[t] = "A189"
    /\ LET a == Cell(matrix[t], len1[t], len2[t], len1[t])
       IN IF a \in DOMAIN heap
          THEN \E final \in Load(a) :
                   /\ result' = [result EXCEPT ![t] = <<final, 1>>]
                   /\ hist' = [hist EXCEPT ![t] = Touched(@)]
                   /\ Goto(t, "A190")
          ELSE /\ Goto(t, "fault")
               /\ UNCHANGED <<result, hist>>
    /\ UNCHANGED <<memory, args, gil, save, astrcmpLocals, matrix, index1,
                   index2, s1_current, ncells>>

\* free(matrix);
LegacyFreeMatrix(t) ==
    /\ pc[t] = "A190"
    /\ IF matrix[t] \in DOMAIN alloc
       THEN /\ heap' = Unmapped(matrix[t])
            /\ alloc' = [b \in DOMAIN alloc \ {matrix[t]} |-> alloc[b]]
            /\ hist' = [hist EXCEPT ![t].frees = @ + 1]
            /\ Goto(t, "A192")
       ELSE /\ Goto(t, "fault")
            /\ UNCHANGED <<memory, hist>>
    /\ UNCHANGED <<args, gil, save, astrcmpLocals, matrix, index1, index2,
                   s1_current, result, ncells>>

\* maxlen = (len2 > len1) ? len2 : len1;
\* return ((float)1 - ((float)result / (float)maxlen));
LegacyReturnResult(t) ==
    /\ pc[t] = "A192"
    /\ LET maxlen == IF len2[t] > len1[t] THEN len2[t] ELSE len1[t]
       IN d' = [d EXCEPT ![t] = Float(maxlen - result[t][1], maxlen)]
    /\ Goto(t, "A210")
    /\ UNCHANGED <<memory, args, gil, save, len1, len2, us1, us2, ret, ldLocals>>

\* return Py_BuildValue("f", d); the caller gives the lock up afterwards.
LegacyBuildValue(t) ==
    /\ pc[t] = "A210"
    /\ ret' = [ret EXCEPT ![t] = PyFloat(d[t])]
    /\ gil' = gil \ {t}
    /\ Goto(t, "done")
    /\ UNCHANGED <<memory, args, save, len1, len2, us1, us2, d, ldLocals>>

LegacyStep(t) ==
    /\ UNCHANGED media
    /\ \/ LegacyCall(t)
       \/ LegacyParseTuple(t)
       \/ LegacyArguments(t)
       \/ LegacyCheckNull(t)
       \/ LegacyCheckLen1(t)
       \/ LegacyCheckLen2(t)
       \/ LegacyAllocMatrix(t)
       \/ LegacyInitColumn(t)
       \/ LegacyInitRow(t)
       \/ LegacyOuterLoop(t)
       \/ LegacyInnerLoop(t)
       \/ LegacyGetResult(t)
       \/ LegacyFreeMatrix(t)
       \/ LegacyReturnResult(t)
       \/ LegacyBuildValue(t)

----------------------------------------------------------------------------
\* The decode functions of the musicdns modules.  They run on the calling
\* thread and use its pc, the interpreter lock and _save; the statements are
\* labelled "V" (avcodec.c), "D" (directshow.cpp) and "G" (gstreamer.c)
\* followed by their line.

\* Everything a decode function leaves alone.
text == <<heap, alloc, args, len1, len2, us1, us2, d, matrix, index1, index2,
          s1_current, result, ncells, hist>>

\* The tuple Py_BuildValue("(N,i,i,i,i)", ...) returns.
PyTuple == [kind |-> "tuple", val |-> ZeroF]

\* The size of the largest decoded audio frame, in bytes.
AVCODEC_MAX_AUDIO_FRAME_SIZE == 192000

\* if (!PyArg_ParseTuple(args, "S", &filename)): one argument, a string.
IsFileName(a) == Len(a) = 1 /\ a[1].type = "str"

\* Py_UNBLOCK_THREADS: _save = PyEval_SaveThread();
SaveThread(t) ==
    /\ gil = {t}
    /\ gil' = {}
    /\ save' = [save EXCEPT ![t] = {t}]

\* Variant: the thread state is not restored.
RestoreThreadSkipped(t) == UNCHANGED <<gil, save>>

\* Py_BLOCK_THREADS: PyEval_RestoreThread(_save);
RestoreThread(t) ==
    /\ gil = {}
    /\ gil' = save[t]
    /\ save' = [save EXCEPT ![t] = {}]

\* return NULL; or the return of a value: back to the caller, who gives the
\* lock up.
Return(t, value) ==
    /\ ret' = [ret EXCEPT ![t] = value]
    /\ gil' = gil \ {t}
    /\ Goto(t, "done")

\* The interpreter calls avcodec's decode; the build is with or without
\* _WIN32.
AvCall(t) ==
    /\ pc[t] = "call"
    /\ gil = {}
    /\ gil' = {t}
    /\ \E w \in BOOLEAN :
           /\ av' = [av EXCEPT !.win32 = w]
           /\ Goto(t, IF w THEN "V188" ELSE "V234")
    /\ UNCHANGED <<text, save, ret, ds, gst>>

\* if (!PyArg_ParseTuple(args, ...)) return NULL;
AvParseTuple(t) ==
    /\ pc[t] \in {"V188", "V234"}
    /\ IF IsFileName(args[t])
       THEN /\ Goto(t, IF pc[t] = "V188" THEN "V192" ELSE "V237")
            /\ UNCHANGED <<gil, ret>>
       ELSE Return(t, Null)
    /\ UNCHANGED <<text, save, media>>

\* _WIN32: w_filename = malloc(...); if (!w_filename) return NULL;
\* e_filename = malloc(...); if (!e_filename) return NULL; the encoding.
AvEncodeFileName(t) ==
    /\ pc[t] = "V192"
    /\ \E w_filename, e_filename \in BOOLEAN :
           IF w_filename /\ e_filename
           THEN /\ Goto(t, "V222")
                /\ UNCHANGED <<gil, ret>>
           ELSE Return(t, Null)
    /\ UNCHANGED <<text, save, media>>

\* Py_UNBLOCK_THREADS
AvUnblockThreads(t) ==
    /\ pc[t] \in {"V222", "V237"}
    /\ SaveThread(t)
    /\ Goto(t, IF pc[t] = "V222" THEN "V223" ELSE "V238")
    /\ UNCHANGED <<text, ret, media>>

\* The line of the Py_BLOCK_THREADS of the error branch of each library call.
AvBlockSite(label) ==
    CASE label = "V223" -> "V224"
      [] label = "V238" -> "V239"
      [] label = "V245" -> "V246"
      [] label = "V255" -> "V262"
      [] label = "V267" -> "V269"
      [] label = "V274" -> "V275"

\* The line of the statement after each library call that succeeded.
AvSuccessor(label) ==
    CASE label = "V223" -> "V245"
      [] label = "V238" -> "V245"
      [] label = "V245" -> "V255"
      [] label = "V255" -> "V267"
      [] label = "V267" -> "V274"
      [] label = "V274" -> "V280"

\* av_open_input_file, av_find_stream_info, the search for an audio stream,
\* avcodec_find_decoder and avcodec_open: each succeeds or fails.
AvSetup(t) ==
    /\ pc[t] \in {"V223", "V238", "V245", "V255", "V267", "V274"}
    /\ \E ok \in BOOLEAN :
           Goto(t, IF ok THEN AvSuccessor(pc[t]) ELSE AvBlockSite(pc[t]))
    /\ UNCHANGED <<text, gil, save, ret, media>>

\* The line of the PyErr_SetString after the Py_BLOCK_THREADS of each error
\* branch (in the first one, the two calls of free come in between).
AvErrorSite(label) ==
    CASE label = "V224" -> "V227"
      [] label = "V239" -> "V240"
      [] label = "V246" -> "V247"
      [] label = "V262" -> "V263"
      [] label = "V269" -> "V270"
      [] label = "V275" -> "V276"

\* Py_BLOCK_THREADS in an error branch.
AvFailBlockThreads(t) ==
    /\ pc[t] \in {"V224", "V239", "V246", "V262", "V269", "V275"}
    /\ RestoreThread(t)
    /\ Goto(t, AvErrorSite(pc[t]))
    /\ UNCHANGED <<text, ret, media>>

\* PyErr_SetString(PyExc_Exception, ...); return NULL;
AvSetError(t) ==
    /\ pc[t] \in {"V227", "V240", "V247", "V263", "V270", "V276"}
    /\ Return(t, Null)
    /\ UNCHANGED <<text, save, media>>

\* channels = codec_context->channels; sample_rate = ...;
\* buffer_size = 135 * channels * sample_rate * 2;
\* buffer = av_malloc(buffer_size + AVCODEC_MAX_AUDIO_FRAME_SIZE);
\* buffer_ptr = buffer; memset(buffer, 0, buffer_size);
\* A product that does not fit in an int wraps or, on a build that traps
\* signed overflow, ends the process.  av_malloc of an amount that is not
\* positive as an int yields NULL; memset with a negative buffer_size (a huge
\* size_t) writes past the block.
AvAllocBuffer(t) ==
    /\ pc[t] = "V280"
    /\ \E channels \in Channels, sample_rate \in SampleRates :
           LET buffer_size ==
                   Times32(2, Times32(Times32(135, channels), sample_rate))
               amount == Add32(buffer_size, AVCODEC_MAX_AUDIO_FRAME_SIZE)
               allocated == IF amount > 0 THEN amount ELSE 0
           IN \/ /\ ~ ProductFits(channels, sample_rate)
                 /\ Goto(t, "fault")
                 /\ UNCHANGED av
              \/ /\ av' = [av EXCEPT !.channels = channels,
                                     !.sample_rate = sample_rate,
                                     !.buffer_size = buffer_size,
                                     !.initial = buffer_size,
                                     !.allocated = allocated,
                                     !.buffer_ptr = 0,
                                     !.written = MAX(buffer_size, 0),
                                     !.overrun = buffer_size < 0]
                 /\ Goto(t, IF buffer_size < 0 THEN "fault" ELSE "V288")
    /\ UNCHANGED <<text, gil, save, ret, ds, gst>>

\* while (buffer_size > 0) { if (av_read_frame(...) < 0) break;
\*     size = packet.size; data = packet.data; ...
AvReadFrame(t) ==
    /\ pc[t] = "V288"
    /\ IF av.buffer_size > 0
       THEN \E size \in 0 .. MaxPacket :
                \/ /\ Goto(t, "V329")
                   /\ UNCHANGED av
                \/ /\ av' = [av EXCEPT !.size = size]
                   /\ Goto(t, "V295")
       ELSE /\ Goto(t, "V329")
            /\ UNCHANGED av
    /\ UNCHANGED <<text, gil, save, ret, ds, gst>>

\* buffer_ptr += output_size; buffer_size -= output_size;
AvAdvance(a, out) ==
    [a EXCEPT !.buffer_ptr = @ + out, !.buffer_size = @ - out]

\* while (size > 0) {
\*     output_size = buffer_size + AVCODEC_MAX_AUDIO_FRAME_SIZE;
\*     len = avcodec_decode_audio3(codec_context, buffer_ptr, &output_size, ..);
\*     if (len < 0) break;  size -= len; data += len;
\*     if (output_size <= 0) continue;
\*     buffer_ptr += output_size; buffer_size -= output_size;
\*     if (buffer_size <= 0) break; }
\* The decoder consumes len <= size bytes (or fails) and writes one frame of
\* at most AVCODEC_MAX_AUDIO_FRAME_SIZE bytes, never more than the capacity
\* it was given in output_size.
AvDecode(t) ==
    /\ pc[t] = "V295"
    /\ IF av.size > 0
       THEN LET capacity == Add32(av.buffer_size, AVCODEC_MAX_AUDIO_FRAME_SIZE)
                half == AVCODEC_MAX_AUDIO_FRAME_SIZE \div 2
            IN \E len \in (0 - 1) .. av.size,
                  out \in {k * half : k \in 0 .. 2} :
                   /\ out <= capacity
                   /\ LET decoded ==
                              [av EXCEPT
                                  !.output_size = capacity,
                                  !.written = MAX(@, av.buffer_ptr + out),
                                  !.overrun =
                                      @ \/ av.buffer_ptr + out > av.allocated]
                          consumed ==
                              [decoded EXCEPT !.size = @ - len,
                                              !.output_size = out]
                          advanced == AvAdvance(consumed, out)
                      IN IF len < 0
                         THEN /\ av' = decoded
                              /\ Goto(t, "V325")
                         ELSE IF out <= 0
                         THEN /\ av' = consumed
                              /\ UNCHANGED pc
                         ELSE /\ av' = advanced
                              /\ IF advanced.buffer_size <= 0
                                 THEN Goto(t, "V325")
                                 ELSE UNCHANGED pc
       ELSE /\ Goto(t, "V325")
            /\ UNCHANGED av
    /\ UNCHANGED <<text, gil, save, ret, ds, gst>>

\* if (packet.data) av_free_packet(&packet); }
AvFreePacket(t) ==
    /\ pc[t] = "V325"
    /\ Goto(t, "V288")
    /\ UNCHANGED <<text, gil, save, ret, media>>

\* avcodec_close(codec_context); av_close_input_file(format_context);
AvClose(t) ==
    /\ pc[t] = "V329"
    /\ Goto(t, "V335")
    /\ UNCHANGED <<text, gil, save, ret, media>>

\* Py_BLOCK_THREADS
AvBlockThreads(t) ==
    /\ pc[t] = "V335"
    /\ RestoreThread(t)
    /\ Goto(t, "V337")
    /\ UNCHANGED <<text, ret, media>>

\* return Py_BuildValue("(N,i,i,i,i)", ...);
AvBuildValue(t) ==
    /\ pc[t] = "V337"
    /\ Return(t, PyTuple)
    /\ UNCHANGED <<text, save, media>>

AvStep(t) ==
    \/ AvCall(t)
    \/ AvParseTuple(t)
    \/ AvEncodeFileName(t)
    \/ AvUnblockThreads(t)
    \/ AvSetup(t)
    \/ AvFailBlockThreads(t)
    \/ AvSetError(t)
    \/ AvAllocBuffer(t)
    \/ AvReadFrame(t)
    \/ AvDecode(t)
    \/ AvFreePacket(t)
    \/ AvClose(t)
    \/ AvBlockThreads(t)
    \/ AvBuildValue(t)

\* The interpreter calls directshow_decode.
DsCall(t) ==
    /\ pc[t] = "call"
    /\ gil = {}
    /\ gil' = {t}
    /\ Goto(t, "D188")
    /\ UNCHANGED <<text, save, ret, media>>

\* if (!PyArg_ParseTuple(args, "U", &filename)) return NULL;
DsParseTuple(t) ==
    /\ pc[t] = "D188"
    /\ IF IsFileName(args[t])
       THEN /\ Goto(t, "D191")
            /\ UNCHANGED <<gil, ret>>
       ELSE Return(t, Null)
    /\ UNCHANGED <<text, save, media>>

\* Py_UNBLOCK_THREADS
DsUnblockThreads(t) ==
    /\ pc[t] = "D191"
    /\ SaveThread(t)
    /\ Goto(t, "D198")
    /\ UNCHANGED <<text, ret, media>>

\* The calls that build the filter graph, in order, by the line of each, and
\* the line of the Py_BLOCK_THREADS of the error branch of each.
DsCalls == <<"D198", "D212", "D224", "D239", "D249", "D256", "D268", "D275",
             "D282", "D294">>
DsBlockSite(label) ==
    CASE label = "D198" -> "D200"
      [] label = "D212" -> "D214"
      [] label = "D224" -> "D226"
      [] label = "D239" -> "D241"
      [] label = "D249" -> "D251"
      [] label = "D256" -> "D258"
      [] label = "D268" -> "D270"
      [] label = "D275" -> "D277"
      [] label = "D282" -> "D284"
      [] label = "D307" -> "D309"

\* hr = ...; if (FAILED(hr)) { ... }: each call succeeds or fails.
DsSetup(t) ==
    /\ \E k \in 1 .. (Len(DsCalls) - 1) :
           /\ pc[t] = DsCalls[k]
           /\ \E ok \in BOOLEAN :
                  Goto(t, IF ok THEN DsCalls[k + 1] ELSE DsBlockSite(pc[t]))
    /\ UNCHANGED <<text, gil, save, ret, media>>

\* long bytes = 135 * wf->nSamplesPerSec * 2 * wf->nChannels;
\* BYTE *buffer = (BYTE *)malloc(bytes * sizeof(BYTE));
\* ZeroMemory(buffer, bytes); CFakeCallback callback(bytes, buffer);
\* malloc of a negative amount (a huge size_t) yields NULL, and ZeroMemory
\* with a negative length writes outside every block.
DsAllocBuffer(t) ==
    /\ pc[t] = "D294"
    /\ \E nChannels \in Channels, nSamplesPerSec \in SampleRates :
           LET bytes ==
                   Times32(nChannels,
                           Times32(2, Times32(135, nSamplesPerSec)))
           IN /\ ds' = [ds EXCEPT !.bytes = bytes,
                                  !.allocated = MAX(bytes, 0),
                                  !.bytesLeft = bytes,
                                  !.buffer = 0]
              /\ Goto(t, IF bytes < 0 THEN "fault" ELSE "D307")
    /\ UNCHANGED <<text, gil, save, ret, av, gst>>

\* hr = pGrabber->SetCallback(pGrabberCallback, 1); if (FAILED(hr)) { ... }
DsSetCallback(t) ==
    /\ pc[t] = "D307"
    /\ \E ok \in BOOLEAN :
           Goto(t, IF ok THEN "D331" ELSE DsBlockSite(pc[t]))
    /\ UNCHANGED <<text, gil, save, ret, media>>

\* The lines of the Py_BLOCK_THREADS of the error branches and of the
\* PyErr_SetString that follows each.
DsBlockSites == <<"D200", "D214", "D226", "D241", "D251", "D258", "D270",
                  "D277", "D284", "D309">>
DsErrorSites == <<"D201", "D215", "D227", "D242", "D252", "D259", "D271",
                  "D278", "D285", "D310">>

\* Py_BLOCK_THREADS in an error branch.
DsFailBlockThreads(t) ==
    /\ \E k \in DOMAIN DsBlockSites :
           /\ pc[t] = DsBlockSites[k]
           /\ Goto(t, DsErrorSites[k])
    /\ RestoreThread(t)
    /\ UNCHANGED <<text, ret, media>>

\* PyErr_SetString(PyExc_Exception, ...); return NULL;
DsSetError(t) ==
    /\ \E k \in DOMAIN DsErrorSites : pc[t] = DsErrorSites[k]
    /\ Return(t, Null)
    /\ UNCHANGED <<text, save, media>>

\* pControl->Run();
DsRun(t) ==
    /\ pc[t] = "D331"
    /\ ds' = [ds EXCEPT !.running = TRUE]
    /\ Goto(t, "D334")
    /\ UNCHANGED <<text, gil, save, ret, av, gst>>

\* CFakeCallback::BufferCB, as a function of the callback's state.
BufferCB(c, BufferLen) ==
    IF BufferLen < c.bytesLeft
    THEN [c EXCEPT !.buffer = @ + BufferLen, !.bytesLeft = @ - BufferLen,
                   !.copied = @ + BufferLen,
                   !.overrun = @ \/ c.buffer + BufferLen > c.allocated]
    ELSE IF c.bytesLeft > 0
    THEN [c EXCEPT !.buffer = @ + c.bytesLeft, !.bytesLeft = 0,
                   !.copied = @ + c.bytesLeft,
                   !.overrun = @ \/ c.buffer + c.bytesLeft > c.allocated]
    ELSE c

\* The sample grabber calls BufferCB on a thread of the graph with the next
\* sample of the stream.
DsBufferCB ==
    /\ ds.running /\ ~ ds.completed
    /\ \E BufferLen \in Chunks : ds' = BufferCB(ds, BufferLen)
    /\ UNCHANGED <<text, pc, gil, save, ret, av, gst>>

\* The stream ends: the graph signals its completion.
DsComplete ==
    /\ ds.running /\ ~ ds.completed
    /\ ds' = [ds EXCEPT !.completed = TRUE]
    /\ UNCHANGED <<text, pc, gil, save, ret, av, gst>>

\* do { if (pEvent->WaitForCompletion(10, &evCode) == S_OK) break; }
\* while (callback.GetBytesLeft() > 0);
DsWait(t) ==
    /\ pc[t] = "D334"
    /\ IF ds.completed \/ ~ (ds.bytesLeft > 0)
       THEN Goto(t, "D337")
       ELSE UNCHANGED pc
    /\ UNCHANGED <<text, gil, save, ret, media>>

\* pControl->Stop();
DsStop(t) ==
    /\ pc[t] = "D337"
    /\ ds' = [ds EXCEPT !.running = FALSE]
    /\ Goto(t, "D343")
    /\ UNCHANGED <<text, gil, save, ret, av, gst>>

\* Py_BLOCK_THREADS
DsBlockThreads(t) ==
    /\ pc[t] = "D343"
    /\ RestoreThread(t)
    /\ Goto(t, "D344")
    /\ UNCHANGED <<text, ret, media>>

\* return Py_BuildValue("(N,i,i,i,i)", ...);
DsBuildValue(t) ==
    /\ pc[t] = "D344"
    /\ Return(t, PyTuple)
    /\ UNCHANGED <<text, save, media>>

DsStep(t) ==
    \/ DsBufferCB
    \/ DsComplete
    \/ DsCall(t)
    \/ DsParseTuple(t)
    \/ DsUnblockThreads(t)
    \/ DsSetup(t)
    \/ DsAllocBuffer(t)
    \/ DsSetCallback(t)
    \/ DsFailBlockThreads(t)
    \/ DsSetError(t)
    \/ DsRun(t)
    \/ DsWait(t)
    \/ DsStop(t)
    \/ DsBlockThreads(t)
    \/ DsBuildValue(t)

\* The interpreter calls gstreamer_decode.
GstCall(t) ==
    /\ pc[t] = "call"
    /\ gil = {}
    /\ gil' = {t}
    /\ Goto(t, "G119")
    /\ UNCHANGED <<text, save, ret, media>>

\* if (!PyArg_ParseTuple(args, "S", &filename)) return NULL;
GstParseTuple(t) ==
    /\ pc[t] = "G119"
    /\ IF IsFileName(args[t])
       THEN /\ Goto(t, "G122")
            /\ UNCHANGED <<gil, ret>>
       ELSE Return(t, Null)
    /\ UNCHANGED <<text, save, media>>

\* memset(&data, 0, sizeof(data));
GstMemset(t) ==
    /\ pc[t] = "G122"
    /\ gst' = NoPipeline
    /\ Goto(t, "G124")
    /\ UNCHANGED <<text, gil, save, ret, av, ds>>

\* Py_UNBLOCK_THREADS
GstUnblockThreads(t) ==
    /\ pc[t] = "G124"
    /\ SaveThread(t)
    /\ Goto(t, "G126")
    /\ UNCHANGED <<text, ret, media>>

\* The pipeline is built and linked, and handoff_cb is connected to the
\* "handoff" signal of the sink (lines 126 to 151).
GstBuild(t) ==
    /\ pc[t] = "G126"
    /\ gst' = [gst EXCEPT !.connected = TRUE]
    /\ Goto(t, "G152")
    /\ UNCHANGED <<text, gil, save, ret, av, ds>>

\* gst_element_set_state(pipeline, GST_STATE_PLAYING);
GstPlay(t) ==
    /\ pc[t] = "G152"
    /\ gst' = [gst EXCEPT !.playing = TRUE]
    /\ Goto(t, "G154")
    /\ UNCHANGED <<text, gil, save, ret, av, ds>>

\* bus = gst_pipeline_get_bus(...); gst_bus_set_sync_handler(bus, ...);
GstSetSyncHandler(t) ==
    /\ pc[t] = "G154"
    /\ gst' = [gst EXCEPT !.handler = TRUE]
    /\ Goto(t, "G158")
    /\ UNCHANGED <<text, gil, save, ret, av, ds>>

\* data.exit_loop = FALSE;
ExitLoopReset(g) == [g EXCEPT !.exit_loop = FALSE]

GstResetExitLoop(t) ==
    /\ pc[t] = "G158"
    /\ gst' = ExitLoopReset(gst)
    /\ Goto(t, "G159")
    /\ UNCHANGED <<text, gil, save, ret, av, ds>>

\* while (!data.exit_loop) ...
GstWait(t) ==
    /\ pc[t] = "G159"
    /\ Goto(t, IF gst.exit_loop THEN "G162" ELSE "G160")
    /\ UNCHANGED <<text, gil, save, ret, media>>

\* ... sleep(1);
GstSleep(t) ==
    /\ pc[t] = "G160"
    /\ Goto(t, "G159")
    /\ UNCHANGED <<text, gil, save, ret, media>>

\* gst_object_unref(bus); gst_element_set_state(pipeline, GST_STATE_NULL);
\* gst_object_unref(GST_OBJECT (pipeline));
GstStop(t) ==
    /\ pc[t] = "G162"
    /\ gst' = [gst EXCEPT !.playing = FALSE]
    /\ Goto(t, "G167")
    /\ UNCHANGED <<text, gil, save, ret, av, ds>>

\* Py_BLOCK_THREADS
GstBlockThreads(t) ==
    /\ pc[t] = "G167"
    /\ RestoreThread(t)
    /\ Goto(t, "G169")
    /\ UNCHANGED <<text, ret, media>>

\* return Py_BuildValue("(N,i,i,i,i)", ...);
GstBuildValue(t) ==
    /\ pc[t] = "G169"
    /\ Return(t, PyTuple)
    /\ UNCHANGED <<text, save, media>>

\* if (size > data->audio_buffer_size) size = data->audio_buffer_size;
Clip(size, left) == IF size > left THEN left ELSE size

\* handoff_cb, run by the streaming thread for a buffer of `size` bytes.
\* On the first buffers (audio_buffer is NULL) the caps structure `str` may be
\* missing; srate and channels are what the caps hold (0: field missing).
\* g_malloc(0) returns NULL; g_malloc of a negative amount (a huge gsize)
\* cannot be served and ends the process, as does a product that does not fit
\* in an int on a build that traps signed overflow.
HandoffCb(t) ==
    /\ pc[t] \in {"G154", "G158", "G159", "G160", "G162"}
    /\ gst.playing /\ gst.connected /\ ~ gst.ended
    /\ gst.buffers < MaxBuffers
    /\ \E size \in Chunks, str \in BOOLEAN,
          srate \in SampleRates, channels \in Channels :
           LET first == gst.audio_buffer = 0 /\ str
               asked == Times32(2, Times32(channels, Times32(135, srate)))
               sized == IF first
                        THEN [gst EXCEPT !.srate = srate,
                                         !.channels = channels,
                                         !.audio_buffer_size = asked,
                                         !.audio_buffer = MAX(asked, 0),
                                         !.audio_buffer_cur = 0]
                        ELSE gst
               n == Clip(size, sized.audio_buffer_size)
               left == sized.audio_buffer_size - n
           IN \/ /\ first /\ ~ ProductFits(channels, srate)
                 /\ Goto(t, "fault")
                 /\ UNCHANGED gst
              \/ /\ first /\ asked < 0
                 /\ gst' = [sized EXCEPT !.audio_buffer = 0]
                 /\ Goto(t, "fault")
              \/ /\ ~ (first /\ asked < 0)
                 /\ (gst.audio_buffer # 0 \/ ~ str) =>
                        (srate = 0 /\ channels = 1)
                 /\ gst' = [sized EXCEPT
                               !.audio_buffer_size = left,
                               !.audio_buffer_cur = @ + n,
                               !.copied = @ + n,
                               !.overrun = @ \/ sized.audio_buffer_cur + n
                                                > sized.audio_buffer,
                               !.exit_loop = @ \/ left <= 0,
                               !.requested = @ \/ left <= 0,
                               !.buffers = @ + 1]
                 /\ UNCHANGED pc
    /\ UNCHANGED <<text, gil, save, ret, av, ds>>

\* A message is posted on the bus by the streaming thread once the sync
\* handler is installed: sync_handler runs and drops the message.
SyncHandler(t) ==
    /\ pc[t] \in {"G158", "G159", "G160", "G162"}
    /\ gst.playing /\ gst.handler /\ ~ gst.ended
    /\ \E type \in {"EOS", "ERROR", "STATE_CHANGED"} :
           IF type \in {"EOS", "ERROR"}
           THEN gst' = [gst EXCEPT !.exit_loop = TRUE, !.requested = TRUE,
                                   !.ended = TRUE]
           ELSE UNCHANGED gst
    /\ UNCHANGED <<text, pc, gil, save, ret, av, ds>>

\* EOS or ERROR is posted while no sync handler is installed (after line 152,
\* before line 155): the message stays on the bus, which nothing reads.
PostUnhandled(t) ==
    /\ pc[t] = "G154"
    /\ gst.playing /\ ~ gst.handler /\ ~ gst.ended
    /\ \E type \in {"EOS", "ERROR"} :
           gst' = [gst EXCEPT !.bus = Append(@, type), !.ended = TRUE]
    /\ UNCHANGED <<text, pc, gil, save, ret, av, ds>>

\* The steps of the streaming thread.
Streaming(t) == HandoffCb(t) \/ SyncHandler(t) \/ PostUnhandled(t)

\* The steps of the thread that called gstreamer_decode.
GstMain(t) ==
    \/ GstCall(t)
    \/ GstParseTuple(t)
    \/ GstMemset(t)
    \/ GstUnblockThreads(t)
    \/ GstBuild(t)
    \/ GstPlay(t)
    \/ GstSetSyncHandler(t)
    \/ GstResetExitLoop(t)
    \/ GstWait(t)
    \/ GstSleep(t)
    \/ GstStop(t)
    \/ GstBlockThreads(t)
    \/ GstBuildValue(t)

GstStep(t) == GstMain(t) \/ Streaming(t)

----------------------------------------------------------------------------
\* The specifications.

Step(t) ==
    /\ UNCHANGED media
    /\ \/ Call(t)
       \/ ParseTuple(t)
       \/ Ready(t)
       \/ GetLength(t)
       \/ CopyS1(t)
       \/ CopyS2(t)
       \/ UnblockThreads(t)
       \/ CheckLen1(t)
       \/ CheckLen2(t)
       \/ AllocMatrix(t)
       \/ InitColumn(t)
       \/ InitRow(t)
       \/ OuterLoop(t)
       \/ InnerLoop(t)
       \/ ComputeResult(t)
       \/ FreeMatrix(t)
       \/ ReturnResult(t)
       \/ BlockThreads(t)
       \/ FreeS1(t)
       \/ FreeS2(t)
       \/ BuildValue(t)

Next == \E t \in Threads : Step(t)

\* One call of astrcmp.
Init == InitFor({1}, ArgTuples)

Spec == Init /\ [][Next]_vars

\* One call under fair scheduling: a thread that can step eventually does.
FairSpec == Init /\ [][Next]_vars /\ WF_vars(Next)

\* NumThreads calls with independent inputs, their steps interleaved.
ConcInit == InitFor(1 .. NumThreads, ConcTuples)

ConcSpec == ConcInit /\ [][Next]_vars

\* One call of the astrcmp of either implementation.
BothNext == \E t \in Threads : Step(t) \/ LegacyStep(t)

BothSpec == Init /\ [][BothNext]_vars

\* One call of astrcmp or of one of the decode functions.
MediaInit == InitFor({1}, MediaTuples)

MediaNext ==
    \E t \in Threads : Step(t) \/ AvStep(t) \/ DsStep(t) \/ GstStep(t)

MediaSpec == MediaInit /\ [][MediaNext]_vars

\* One call of gstreamer_decode with a file name, the calling thread and the
\* streaming thread both scheduled fairly: the caller keeps running, and a
\* stream that has not ended hands over a buffer or posts a message.
GstInit == InitFor({1}, {<<Str(<<1>>)>>})

GstNext == \E t \in Threads : GstStep(t)

GstFairSpec ==
    /\ GstInit /\ [][GstNext]_vars
    /\ \A t \in {1} : WF_vars(GstMain(t)) /\ WF_vars(Streaming(t))

----------------------------------------------------------------------------
\* LevenshteinDistance as a function of its inputs: the matrix the loops of
\* steps 2 to 6a leave behind, and the value returned.

BorderMatrix(l1, l2) ==
    [c \in (0 .. l1) \X (0 .. l2) |->
        IF c[2] = 0 /\ InitCond(c[1], l1) THEN c[1]
        ELSE IF c[1] = 0 /\ InitCond(c[2], l2) THEN c[2]
        ELSE Junk]

RECURSIVE FillMatrix(_, _, _, _, _)
FillMatrix(s1, s2, m, i, j) ==
    IF ~LoopCond(i, Len(s1)) THEN m
    ELSE IF ~LoopCond(j, Len(s2)) THEN FillMatrix(s1, s2, m, i + 1, 1)
    ELSE LET cost == Cost(s1[i], s2[j])
             cell == Step6(m[<<i - 1, j>>], m[<<i, j - 1>>],
                           m[<<i - 1, j - 1>>], cost)
             final == IF TransGuard(i, j)
                      THEN Step6a(cell, Trans(m[<<i - 2, j - 2>>], s1[i - 1],
                                              s2[j], s1[i], s2[j - 1]))
                      ELSE cell
         IN FillMatrix(s1, s2, [m EXCEPT ![<<i, j>>] = final], i, j + 1)

Matrix(s1, s2) == FillMatrix(s1, s2, BorderMatrix(Len(s1), Len(s2)), 1, 1)

LevenshteinDistance(s1, s2) ==
    IF IsEmpty(Len(s1)) THEN ZeroF
    ELSE IF IsEmpty(Len(s2)) THEN ZeroF
    ELSE Step7(Matrix(s1, s2)[<<Len(s1), Len(s2)>>], Len(s1), Len(s2))

----------------------------------------------------------------------------
\* Vocabulary of the properties.

\* The two sequences a call was made with.
SeqA(t) == args[t][1].text
SeqB(t) == args[t][2].text

WellFormed(t) == args[t][1].type = "str" /\ args[t][2].type = "str"

\* Cell (i, j) of the thread's matrix, while the matrix is allocated.
CellAt(t, i, j) == heap[MATRIX(matrix[t], len1[t], i, j)]

\* The loops have ended and the matrix is complete and still allocated.
Filled(t) == pc[t] \in {"L139", "L141"}

\* astrcmp has returned a float.
Returned(t) == pc[t] = "done" /\ ret[t].kind = "float"

\* The positions inside LevenshteinDistance past the length checks.
PastChecks == {"L78", "L80", "L83", "L89", "L96", "L139", "L141", "L143"}

----------------------------------------------------------------------------
\* C1 (identity): a call with twice the same non-empty sequence leaves 0 in
\* every diagonal cell of the matrix, the final cell (len, len) included, and
\* returns the score 1.0.
C1_Identity ==
    \A t \in Threads :
        (WellFormed(t) /\ SeqA(t) = SeqB(t) /\ SeqA(t) # <<>>) =>
            /\ Filled(t) => \A i \in 0 .. len1[t] : CellAt(t, i, i) = 0
            /\ pc[t] \in {"L141", "L143"} => result[t] = OneF
            /\ pc[t] = "done" => ret[t] = PyFloat(OneF)

\* A call with twice the same sequence, long enough for the transposition
\* branch to run, has returned 1.0.
C1_Witness ==
    \E t \in Threads :
        /\ Returned(t) /\ SeqA(t) = SeqB(t) /\ Len(SeqA(t)) >= 3
        /\ ret[t].val = OneF

\* C2 (symmetry): the score returned for (a, b) is the score of (b, a), empty
\* inputs included, and cell (i, j) of the matrix built for (a, b) equals
\* cell (j, i) of the matrix built for (b, a).
C2_Symmetry ==
    \A t \in Threads :
        /\ Filled(t) =>
               \A i \in 0 .. len1[t], j \in 0 .. len2[t] :
                   CellAt(t, i, j) = Matrix(SeqB(t), SeqA(t))[<<j, i>>]
        /\ Returned(t) => ret[t].val = LevenshteinDistance(SeqB(t), SeqA(t))

\* A call with two different sequences of different lengths, both long
\* enough for the transposition branch, has returned.
C2_Witness ==
    \E t \in Threads :
        /\ Returned(t) /\ Len(SeqA(t)) >= 3 /\ Len(SeqB(t)) >= 3
        /\ Len(SeqA(t)) # Len(SeqB(t))

\* C3 (range): every returned score lies in [0, 1] (and is a number), and the
\* final cell of a completed matrix lies in 0 .. max(len1, len2).
C3_Range ==
    \A t \in Threads :
        /\ Filled(t) =>
               /\ 0 <= CellAt(t, len1[t], len2[t])
               /\ CellAt(t, len1[t], len2[t]) <= MAX(len1[t], len2[t])
        /\ Returned(t) =>
               /\ ret[t].val[2] > 0
               /\ FloatLE(ZeroF, ret[t].val)
               /\ FloatLE(ret[t].val, OneF)

\* A call with non-empty inputs of different lengths has returned a score
\* strictly between 0 and 1.
C3_Witness ==
    \E t \in Threads :
        /\ Returned(t) /\ Len(SeqA(t)) # Len(SeqB(t))
        /\ SeqA(t) # <<>> /\ SeqB(t) # <<>>
        /\ ret[t].val # ZeroF /\ ret[t].val # OneF

\* C4 (empty inputs): a call with an empty first or second sequence never gets
\* past the length checks (no matrix is allocated, no cell computed, the
\* division of step 7 is not evaluated) and returns exactly 0.0.
C4_Empty ==
    \A t \in Threads :
        (WellFormed(t) /\ (SeqA(t) = <<>> \/ SeqB(t) = <<>>)) =>
            /\ pc[t] \notin PastChecks
            /\ matrix[t] = 0 /\ ncells[t] = 0
            /\ DOMAIN alloc \subseteq {us1[t], us2[t]}
            /\ pc[t] \in {"L168", "L170", "L171", "L173"} => d[t] = ZeroF
            /\ pc[t] = "done" => ret[t] = PyFloat(ZeroF)

\* A call with exactly one empty sequence has returned 0.0.
C4_Witness ==
    \E t \in Threads :
        /\ Returned(t) /\ SeqA(t) = <<>> /\ SeqB(t) # <<>>
        /\ ret[t].val = ZeroF

----------------------------------------------------------------------------
\* Edit distance, defined from the edits and not from the recurrence: the
\* alignments of a and b are the paths from (0, 0) in the graph whose nodes
\* are the pairs of prefix lengths and whose edges are
\*   a match (x, y) -> (x + 1, y + 1), free, when the next code points agree;
\*   a deletion (x, y) -> (x + 1, y), an insertion (x, y) -> (x, y + 1) and a
\*   substitution (x, y) -> (x + 1, y + 1), one edit each;
\*   with `swaps`, a swap (x, y) -> (x + 2, y + 2), one edit, when the next
\*   two code points of a are the next two of b in the other order and the
\*   prefix lengths reached are > 2 on both sides.
\* The cost of a node is the least number of edits on a path to it.

MatchEdges(a, b, S) ==
    {<<n[1] + 1, n[2] + 1>> :
        n \in {n \in S : /\ n[1] < Len(a) /\ n[2] < Len(b)
                          /\ a[n[1] + 1] = b[n[2] + 1]}}

EditEdges(a, b, S, swaps) ==
    {<<n[1] + 1, n[2]>> : n \in {n \in S : n[1] < Len(a)}}
    \cup {<<n[1], n[2] + 1>> : n \in {n \in S : n[2] < Len(b)}}
    \cup {<<n[1] + 1, n[2] + 1>> :
             n \in {n \in S : n[1] < Len(a) /\ n[2] < Len(b)}}
    \cup {<<n[1] + 2, n[2] + 2>> :
             n \in {n \in S : /\ swaps
                               /\ n[1] + 2 <= Len(a) /\ n[2] + 2 <= Len(b)
                               /\ n[1] + 2 > 2 /\ n[2] + 2 > 2
                               /\ a[n[1] + 1] = b[n[2] + 2]
                               /\ a[n[1] + 2] = b[n[2] + 1]}}

RECURSIVE MatchClosure(_, _, _)
MatchClosure(a, b, S) ==
    LET T == S \cup MatchEdges(a, b, S)
    IN IF T = S THEN S ELSE MatchClosure(a, b, T)

\* layers[k + 1] is the set of nodes of cost <= k, for k in 0 .. kmax.
RECURSIVE EditLayers(_, _, _, _, _)
EditLayers(a, b, swaps, layers, kmax) ==
    IF Len(layers) > kmax THEN layers
    ELSE LET last == layers[Len(layers)]
             next == MatchClosure(a, b, last \cup EditEdges(a, b, last, swaps))
         IN EditLayers(a, b, swaps, Append(layers, next), kmax)

\* The cost of every node: the number of layers the node is not in.
EditCosts(a, b, swaps) ==
    LET kmax == MAX(Len(a), Len(b))
        layers == EditLayers(a, b, swaps,
                             <<MatchClosure(a, b, {<<0, 0>>})>>, kmax)
    IN [n \in (0 .. Len(a)) \X (0 .. Len(b)) |->
           Cardinality({k \in 1 .. (kmax + 1) : n \notin layers[k]})]

\* The plain Levenshtein distance of a and b.
PlainDistance(a, b) == EditCosts(a, b, FALSE)[<<Len(a), Len(b)>>]

\* A score v is 1 - dist / max(l1, l2).
IsScore(v, dist, l1, l2) ==
    /\ v[2] > 0
    /\ v[1] * MAX(l1, l2) = (MAX(l1, l2) - dist) * v[2]

\* No adjacent transposition applies: no prefix lengths i > 2, j > 2 where the
\* last two code points of the prefixes are each other's reverse.
NoSwapApplies(a, b) ==
    ~ \E i \in 3 .. Len(a), j \in 3 .. Len(b) :
          a[i - 1] = b[j] /\ a[i] = b[j - 1]

\* b is a with the distinct code points at positions k and k + 1 exchanged.
SwappedAt(a, b, k) ==
    /\ Len(a) = Len(b) /\ k >= 1 /\ k + 1 <= Len(a)
    /\ a[k] # a[k + 1]
    /\ b = [a EXCEPT ![k] = a[k + 1], ![k + 1] = a[k]]

\* a and b have the same length and differ in exactly one position.
OneSubstitution(a, b) ==
    /\ Len(a) = Len(b)
    /\ Cardinality({k \in 1 .. Len(a) : a[k] # b[k]}) = 1

\* The final cell of a completed matrix.
FinalCell(t) == CellAt(t, len1[t], len2[t])

\* The call was made with the sequences a and b.
CalledWith(t, a, b) == args[t] = <<Str(a), Str(b)>>

----------------------------------------------------------------------------
\* C5 (minimum edit cost): when the loops have ended, every cell (i, j) holds
\* the least number of insertions, deletions, substitutions and swaps of
\* adjacent code points (at prefix lengths > 2 on both sides) that turn the
\* first i code points of a into the first j of b, and the score returned is
\* 1 - cell(len1, len2) / max(len1, len2).
C5_MinimumEditCost ==
    \A t \in Threads :
        /\ pc[t] = "L139" =>
               LET costs == EditCosts(SeqA(t), SeqB(t), TRUE)
               IN \A i \in 0 .. len1[t], j \in 0 .. len2[t] :
                      CellAt(t, i, j) = costs[<<i, j>>]
        /\ (Returned(t) /\ SeqA(t) # <<>> /\ SeqB(t) # <<>>) =>
               IsScore(ret[t].val,
                       EditCosts(SeqA(t), SeqB(t), TRUE)[<<len1[t], len2[t]>>],
                       len1[t], len2[t])

\* A call whose distance with swaps is below the plain Levenshtein distance
\* has returned.
C5_Witness ==
    \E t \in Threads :
        /\ Returned(t) /\ SeqA(t) # <<>> /\ SeqB(t) # <<>>
        /\ EditCosts(SeqA(t), SeqB(t), TRUE)[<<len1[t], len2[t]>>]
               < PlainDistance(SeqA(t), SeqB(t))

\* C6 (no transposition): when no adjacent transposition applies the raw
\* distance is the plain Levenshtein distance; two sequences of equal length
\* that differ in one position have raw distance 1; kitten/sitten has raw
\* distance 1 of 6 and kitten/sitting 3 of 7.
C6_PlainWhenNoSwap ==
    \A t \in Threads :
        /\ pc[t] = "L139" =>
               /\ NoSwapApplies(SeqA(t), SeqB(t)) =>
                      FinalCell(t) = PlainDistance(SeqA(t), SeqB(t))
               /\ OneSubstitution(SeqA(t), SeqB(t)) => FinalCell(t) = 1
               /\ CalledWith(t, Kitten, Sitten) => FinalCell(t) = 1
               /\ CalledWith(t, Kitten, Sitting) => FinalCell(t) = 3
        /\ Returned(t) =>
               /\ CalledWith(t, Kitten, Sitten) => ret[t].val = <<5, 6>>
               /\ CalledWith(t, Kitten, Sitting) => ret[t].val = <<4, 7>>

\* A call to which no transposition applies, with two sequences of length 3
\* or more at plain distance 2 or more, has completed its matrix.
C6_Witness ==
    \E t \in Threads :
        /\ pc[t] = "L139" /\ len1[t] >= 3 /\ len2[t] >= 3
        /\ NoSwapApplies(SeqA(t), SeqB(t))
        /\ FinalCell(t) >= 2

\* C7 (interior transposition): if b is a with two distinct adjacent code
\* points exchanged at positions k and k + 1, k >= 2, the raw distance is 1
\* and the score 1 - 1/len; abcd/acbd has distance 1 and score 0.75.
C7_InteriorSwap ==
    \A t \in Threads :
        LET swapped == \E k \in 2 .. Len(SeqA(t)) :
                           SwappedAt(SeqA(t), SeqB(t), k)
        IN /\ pc[t] = "L139" =>
                  /\ swapped => FinalCell(t) = 1
                  /\ CalledWith(t, Abcd, Acbd) => FinalCell(t) = 1
           /\ (Returned(t) /\ WellFormed(t)) =>
                  /\ swapped => IsScore(ret[t].val, 1, len1[t], len1[t])
                  /\ CalledWith(t, Abcd, Acbd) => ret[t].val = <<3, 4>>

\* A call with a sequence and its copy with the last two of three code points
\* exchanged has returned.
C7_Witness ==
    \E t \in Threads :
        /\ Returned(t) /\ Len(SeqA(t)) = 3
        /\ SwappedAt(SeqA(t), SeqB(t), 2)

\* C8 (boundary of the transposition rule): every cell with index1 <= 2 or
\* index2 <= 2 is the plain minimum of its three neighbours; when len1 <= 2
\* or len2 <= 2 the raw distance is the plain Levenshtein distance; "ab"/"ba"
\* has distance 2 and score 0.0; exchanging the first two (distinct) code
\* points of a longer sequence costs 2 edits.
C8_Boundary ==
    \A t \in Threads :
        /\ pc[t] = "L139" =>
               /\ \A i \in 1 .. len1[t], j \in 1 .. len2[t] :
                      (i <= 2 \/ j <= 2) =>
                          LET sub == CellAt(t, i - 1, j - 1)
                                     + (IF SeqA(t)[i] = SeqB(t)[j] THEN 0 ELSE 1)
                              del == CellAt(t, i - 1, j) + 1
                              ins == CellAt(t, i, j - 1) + 1
                          IN /\ CellAt(t, i, j) \in {sub, del, ins}
                             /\ CellAt(t, i, j) <= sub
                             /\ CellAt(t, i, j) <= del
                             /\ CellAt(t, i, j) <= ins
               /\ (len1[t] <= 2 \/ len2[t] <= 2) =>
                      FinalCell(t) = PlainDistance(SeqA(t), SeqB(t))
               /\ SwappedAt(SeqA(t), SeqB(t), 1) => FinalCell(t) = 2
        /\ (Returned(t) /\ CalledWith(t, <<1, 2>>, <<2, 1>>)) =>
               ret[t].val = ZeroF

\* A call with a sequence of length 3 and its copy with the first two code
\* points exchanged has completed its matrix.
C8_Witness ==
    \E t \in Threads :
        /\ pc[t] = "L139" /\ len1[t] = 3
        /\ SwappedAt(SeqA(t), SeqB(t), 1)

----------------------------------------------------------------------------
\* The positions after the loops of LevenshteinDistance, up to the return of
\* astrcmp.
AfterLoops == {"L139", "L141", "L143", "L168", "L170", "L171", "L173", "done"}

Words(base, n) == [k \in 1 .. n |-> heap[base + k - 1]]

\* The thread takes a step.
Acts(t) ==
    \/ pc'[t] # pc[t]
    \/ index1'[t] # index1[t]
    \/ index2'[t] # index2[t]

\* The positions at which the copy of the first, of the second sequence is
\* allocated.
S1Live == {"L164", "L166", "L69", "L72", "L168", "L170"} \cup PastChecks
S2Live == {"L166", "L69", "L72", "L168", "L170", "L171"} \cup PastChecks

\* C10 (reentrancy): with the steps of several calls interleaved, no call
\* faults, each returns the score LevenshteinDistance has for its own inputs,
\* the copies of its input sequences keep their contents while they are
\* allocated, the matrices of two calls are different blocks, and a step
\* changes a word of memory only when it is a store of the stepping call into
\* its own matrix.
C10_Reentrant ==
    /\ [](\A t \in Threads :
            /\ pc[t] # "fault"
            /\ Returned(t) =>
                   ret[t].val = LevenshteinDistance(SeqA(t), SeqB(t))
            /\ pc[t] \in S1Live =>
                   Words(us1[t], len1[t] + 1) = UCS4(SeqA(t))
            /\ pc[t] \in S2Live =>
                   Words(us2[t], len2[t] + 1) = UCS4(SeqB(t))
            /\ \A u \in Threads \ {t} :
                   (pc[t] \in PastChecks \ {"L78", "L143"}
                        /\ pc[u] \in PastChecks \ {"L78", "L143"}) =>
                       matrix[t] # matrix[u])
    /\ [][\A a \in DOMAIN heap \cap DOMAIN heap' :
             heap'[a] # heap[a] =>
                 \E t \in Threads :
                     /\ Acts(t)
                     /\ pc[t] \in {"L80", "L83", "L96"}
                     /\ matrix[t] \in DOMAIN alloc
                     /\ a \in Block(matrix[t], alloc[matrix[t]])]_vars

\* Two calls are both in the middle of filling their matrices.
C10_Witness ==
    \E t \in Threads, u \in Threads :
        /\ t # u
        /\ pc[t] = "L96" /\ ncells[t] >= 1 /\ ncells[t] < len1[t] * len2[t]
        /\ pc[u] = "L96" /\ ncells[u] >= 1 /\ ncells[u] < len1[u] * len2[u]

----------------------------------------------------------------------------
\* The positions of LevenshteinDistance where the matrix is allocated.
MatrixLive == {"L80", "L83", "L89", "L96", "L139", "L141"}

\* The number of stores made so far into cell (i, j) of the thread's matrix.
StoresAt(t, i, j) == hist[t].stores[MATRIX(0, len1[t], i, j)]

\* C12 (bounds of the intermediate cells): at every point of the computation
\* every cell (i, j) written so far, border cells and cells set by the
\* transposition branch included, holds a value v with
\* |i - j| <= v <= max(i, j).
C12_CellBounds ==
    \A t \in Threads :
        (WellFormed(t) /\ pc[t] \in MatrixLive) =>
            \A i \in 0 .. len1[t], j \in 0 .. len2[t] :
                StoresAt(t, i, j) > 0 =>
                    /\ Abs(i - j) <= CellAt(t, i, j)
                    /\ CellAt(t, i, j) <= MAX(i, j)

\* A matrix of 4 x 4 cells is complete and one of its cells was set by the
\* transposition branch.
C12_Witness ==
    \E t \in Threads :
        /\ Filled(t) /\ len1[t] = 3 /\ len2[t] = 3
        /\ hist[t].lowered # {}

\* C15 (the transposition candidate wins only on an exact swap): whenever the
\* transposition branch lowers a cell, both of its comparisons succeeded and
\* the value stored is matrix[i-2][j-2] + 1; a candidate with one or two
\* failed comparisons (+2, +3) never replaces the three-way minimum.
C15_ExactSwapOnly ==
    \A t \in Threads :
        \A w \in hist[t].lowered : w = <<0, 1>>

\* The transposition branch has lowered a cell in a call that also evaluated
\* the branch with a failed comparison (the sequences differ in their third
\* code point from the exchanged pair).
C15_Witness ==
    \E t \in Threads :
        /\ pc[t] = "L139" /\ hist[t].lowered # {}
        /\ \E i \in 3 .. len1[t], j \in 3 .. len2[t] :
               /\ SeqA(t)[i - 1] = SeqB(t)[j] /\ SeqA(t)[i] = SeqB(t)[j - 1]
               /\ SeqA(t)[i] # SeqB(t)[j]
        /\ \E i \in 3 .. len1[t], j \in 3 .. len2[t] :
               SeqA(t)[i - 1] # SeqB(t)[j] \/ SeqA(t)[i] # SeqB(t)[j - 1]

\* C16 (converse of identity): two different non-empty sequences have a final
\* cell of at least 1 and a score other than 1.0; a returned score of 1.0
\* means the two sequences are equal.
C16_OnlyEqualScoresOne ==
    \A t \in Threads :
        /\ (WellFormed(t) /\ SeqA(t) # SeqB(t)
               /\ SeqA(t) # <<>> /\ SeqB(t) # <<>>) =>
               /\ Filled(t) => FinalCell(t) >= 1
               /\ pc[t] \in {"L141", "L143"} => result[t] # OneF
        /\ (Returned(t) /\ ret[t].val = OneF) => SeqA(t) = SeqB(t)

\* A call with two different sequences of length 3 that are each other's
\* adjacent transposition has returned a score below 1.0.
C16_Witness ==
    \E t \in Threads :
        /\ Returned(t) /\ SwappedAt(SeqA(t), SeqB(t), 2)
        /\ ret[t].val # OneF

\* C17 (fill order): every cell the loop body is about to read (above, left,
\* diagonal and, in the transposition branch, (i-2, j-2)), and the final cell
\* read after the loops, was written earlier in the same call; every interior
\* cell is written at most once, and exactly once when the loops have ended;
\* once the initialisation loops have ended the border cells hold their
\* index and are not written again (cell (0, 0) was written twice, with 0).
C17_FillOrder ==
    \A t \in Threads :
        WellFormed(t) =>
            /\ (pc[t] = "L96" /\ LoopCond(index2[t], len2[t])) =>
                   LET i == index1[t]
                       j == index2[t]
                   IN /\ StoresAt(t, i - 1, j) > 0
                      /\ StoresAt(t, i, j - 1) > 0
                      /\ StoresAt(t, i - 1, j - 1) > 0
                      /\ TransGuard(i, j) => StoresAt(t, i - 2, j - 2) > 0
                      /\ StoresAt(t, i, j) = 0
            /\ pc[t] = "L139" => StoresAt(t, len1[t], len2[t]) > 0
            /\ pc[t] \in MatrixLive =>
                   \A i \in 1 .. len1[t], j \in 1 .. len2[t] :
                       /\ StoresAt(t, i, j) <= 1
                       /\ Filled(t) => StoresAt(t, i, j) = 1
            /\ pc[t] \in {"L89", "L96", "L139", "L141"} =>
                   /\ StoresAt(t, 0, 0) = 2 /\ CellAt(t, 0, 0) = 0
                   /\ \A i \in 1 .. len1[t] :
                          StoresAt(t, i, 0) = 1 /\ CellAt(t, i, 0) = i
                   /\ \A j \in 1 .. len2[t] :
                          StoresAt(t, 0, j) = 1 /\ CellAt(t, 0, j) = j

\* The loop body is about to compute the last cell of a 4 x 4 matrix, with the
\* transposition branch.
C17_Witness ==
    \E t \in Threads :
        /\ pc[t] = "L96" /\ index1[t] = 3 /\ index2[t] = 3
        /\ len1[t] = 3 /\ len2[t] = 3
        /\ StoresAt(t, 1, 1) = 1

----------------------------------------------------------------------------
\* The call is one of the legacy implementation.
Legacy(t) == hist[t].legacy

\* Exactly one of the two sequences is empty; the length of the other one.
OneEmpty(t) == (SeqA(t) = <<>>) # (SeqB(t) = <<>>)
NonEmptyLen(t) == MAX(Len(SeqA(t)), Len(SeqB(t)))

\* What the two implementations have in common: a call of the current one
\* returns the value of LevenshteinDistance; a call of the legacy one returns
\* the same value unless exactly one sequence is empty (0.0 for two empty
\* sequences), and then it returns the length of the other sequence, which is
\* not what the current implementation returns (0.0).
SameUnlessOneEmpty(t) ==
    LET current == LevenshteinDistance(SeqA(t), SeqB(t))
    IN /\ ~ Legacy(t) => ret[t].val = current
       /\ (Legacy(t) /\ ~ OneEmpty(t)) => ret[t].val = current
       /\ (SeqA(t) = <<>> /\ SeqB(t) = <<>>) => ret[t].val = ZeroF
       /\ (Legacy(t) /\ OneEmpty(t)) =>
              /\ current = ZeroF
              /\ ret[t].val = <<NonEmptyLen(t), 1>>
              /\ ret[t].val # current

\* C11 as stated: the implementations agree except when exactly one input is
\* empty, where the legacy one returns the length of the other input, a value
\* outside [0, 1].
C11_AsStated ==
    \A t \in Threads :
        Returned(t) =>
            /\ SameUnlessOneEmpty(t)
            /\ (Legacy(t) /\ OneEmpty(t)) =>
                   ~ (FloatLE(ZeroF, ret[t].val) /\ FloatLE(ret[t].val, OneF))

\* C11 (the two implementations): they return the same score for every pair
\* of non-empty sequences and 0.0 for two empty ones; when exactly one input
\* is empty the current one returns 0.0 and the legacy one the length of the
\* other input, a value of at least 1 that lies outside [0, 1] exactly when
\* that length is 2 or more (for a length of 1 it is 1.0).
C11_LegacyReturnsLength ==
    \A t \in Threads :
        Returned(t) =>
            /\ SameUnlessOneEmpty(t)
            /\ (Legacy(t) /\ OneEmpty(t)) =>
                   /\ FloatLE(OneF, ret[t].val)
                   /\ FloatLE(ret[t].val, OneF) <=> NonEmptyLen(t) = 1

\* A call of the legacy implementation with an empty first and a second
\* sequence of length 3 has returned 3.0.
C11_Witness ==
    \E t \in Threads :
        /\ Legacy(t) /\ Returned(t)
        /\ SeqA(t) = <<>> /\ Len(SeqB(t)) = 3
        /\ ret[t].val = <<3, 1>>

\* The positions of the legacy LevenshteinDistance where the matrix is
\* allocated, and the positions of both implementations after its free.
LegacyMatrixLive == {"A114", "A119", "A127", "A134", "A189", "A190"}
MatrixFreed == {"L143", "L168", "L170", "L171", "L173", "A192", "A210", "done"}

\* C13 (matrix lifetime): in both implementations a call with two non-empty
\* inputs allocates one matrix of (len1 + 1) * (len2 + 1) cells, frees it once
\* before it returns and never accesses it after the free (the final cell is
\* read while the matrix is still allocated); a call with an empty input
\* allocates no matrix.
C13_MatrixLifetime ==
    \A t \in Threads :
        WellFormed(t) =>
            /\ hist[t].mallocs <= 1 /\ hist[t].frees <= hist[t].mallocs
            /\ ~ hist[t].late
            /\ pc[t] # "fault"
            /\ pc[t] \in MatrixLive \cup LegacyMatrixLive =>
                   /\ hist[t].mallocs = 1 /\ hist[t].frees = 0
                   /\ matrix[t] \in DOMAIN alloc
                   /\ alloc[matrix[t]] = (len1[t] + 1) * (len2[t] + 1)
            /\ (pc[t] \in MatrixFreed /\ SeqA(t) # <<>> /\ SeqB(t) # <<>>) =>
                   /\ hist[t].mallocs = 1 /\ hist[t].frees = 1
                   /\ hist[t].size = (Len(SeqA(t)) + 1) * (Len(SeqB(t)) + 1)
                   /\ matrix[t] \notin DOMAIN alloc
            /\ (SeqA(t) = <<>> \/ SeqB(t) = <<>>) =>
                   hist[t].mallocs = 0 /\ matrix[t] = 0

\* A call of the legacy implementation with sequences of lengths 3 and 2 has
\* returned after one allocation of 12 cells and one free.
C13_Witness ==
    \E t \in Threads :
        /\ Legacy(t) /\ Returned(t) /\ len1[t] = 3 /\ len2[t] = 2
        /\ hist[t].mallocs = 1 /\ hist[t].frees = 1 /\ hist[t].size = 12

\* The index pairs (column, row) the statement a thread is about to execute
\* uses to address the matrix.
IndexPairs(t) ==
    LET i == index1[t]
        j == index2[t]
    IN IF pc[t] \in {"L80", "A114"} /\ i <= len1[t] THEN {<<i, 0>>}
       ELSE IF pc[t] \in {"L83", "A119"} /\ j <= len2[t] THEN {<<0, j>>}
       ELSE IF pc[t] \in {"L96", "A134"} /\ j <= len2[t]
       THEN {<<i, j>>, <<i - 1, j>>, <<i, j - 1>>, <<i - 1, j - 1>>}
            \cup (IF i > 2 /\ j > 2 THEN {<<i - 2, j - 2>>} ELSE {})
       ELSE IF pc[t] \in {"L139", "A189"} THEN {<<len1[t], len2[t]>>}
       ELSE {}

\* The offset of cell (a, b) in the thread's implementation.
Offset(t, a, b) ==
    IF Legacy(t) THEN Cell(0, a, b, len1[t]) ELSE MATRIX(0, len1[t], a, b)

\* C18 (flat indexing): while a matrix is allocated, in either implementation,
\* the offset b * (len1 + 1) + a of every (a, b) with 0 <= a <= len1 and
\* 0 <= b <= len2 lies in 0 .. (len1 + 1) * (len2 + 1) - 1, different pairs
\* have different offsets, and every index pair the statement about to run
\* uses, (index1 - 2, index2 - 2) included, lies in those ranges and inside
\* the block allocated for the matrix.
C18_FlatIndexing ==
    \A t \in Threads :
        (WellFormed(t) /\ pc[t] \in MatrixLive \cup LegacyMatrixLive) =>
            LET cells == (0 .. len1[t]) \X (0 .. len2[t])
            IN /\ \A c \in cells :
                      /\ Offset(t, c[1], c[2]) = c[2] * (len1[t] + 1) + c[1]
                      /\ Offset(t, c[1], c[2]) >= 0
                      /\ Offset(t, c[1], c[2]) < (len1[t] + 1) * (len2[t] + 1)
               /\ \A c, e \in cells :
                      Offset(t, c[1], c[2]) = Offset(t, e[1], e[2]) => c = e
               /\ \A c \in IndexPairs(t) :
                      /\ c \in cells
                      /\ matrix[t] + Offset(t, c[1], c[2])
                             \in Block(matrix[t], alloc[matrix[t]])

\* The legacy loop body is about to compute the last cell of a 4 x 3 matrix,
\* reading cell (1, 1) in its transposition branch.
C18_Witness ==
    \E t \in Threads :
        /\ Legacy(t) /\ pc[t] = "A134"
        /\ len1[t] = 3 /\ len2[t] = 3 /\ index1[t] = 3 /\ index2[t] = 3
        /\ <<1, 1>> \in IndexPairs(t)

----------------------------------------------------------------------------
\* The statements about to run Py_UNBLOCK_THREADS, Py_BLOCK_THREADS, and an
\* interpreter call after the thread state was restored (PyMem_Free,
\* PyErr_SetString, Py_BuildValue), in astrcmp and in the decode functions of
\* avcodec.c and directshow.cpp.
UnblockSites == {"L166", "V222", "V237", "D191"}

BlockSites ==
    {"L168", "V224", "V239", "V246", "V262", "V269", "V275", "V335", "D343"}
        \cup {DsBlockSites[k] : k \in DOMAIN DsBlockSites}

InterpreterSites ==
    {"L170", "L171", "L173", "V227", "V240", "V247", "V263", "V270", "V276",
     "V337", "D344"} \cup {DsErrorSites[k] : k \in DOMAIN DsErrorSites}

\* The functions C14 is about: the positions of astrcmp, LevenshteinDistance
\* and the decode functions of avcodec.c and directshow.cpp.
Bracketed(t) ==
    pc[t] \notin {"call", "fault", "G119", "G122", "G124", "G126", "G152",
                  "G154", "G158", "G159", "G160", "G162", "G167", "G169"}

\* C14 (thread-state bracketing): in astrcmp and in the avcodec and directshow
\* decode functions, Py_UNBLOCK_THREADS runs with the thread state held and
\* nothing saved; every Py_BLOCK_THREADS runs with the thread state released
\* and saved (so it is the one restore of that release); every interpreter
\* call that follows, and every return, happens with the thread state held
\* and nothing left saved; the thread never holds the state while a released
\* one is still saved.
C14_Bracketing ==
    \A t \in Threads :
        Bracketed(t) =>
            /\ pc[t] \in UnblockSites => gil = {t} /\ save[t] = {}
            /\ pc[t] \in BlockSites => t \notin gil /\ save[t] = {t}
            /\ pc[t] \in InterpreterSites => gil = {t} /\ save[t] = {}
            /\ pc[t] = "done" => save[t] = {} /\ ret[t] # None
            /\ t \in gil => save[t] = {}
            /\ save[t] = {} => (t \in gil \/ pc[t] = "done")

\* directshow_decode is about to call PyErr_SetString in its last error
\* branch, after Py_UNBLOCK_THREADS and one Py_BLOCK_THREADS.
C14_Witness ==
    \E t \in Threads :
        /\ pc[t] = "D310" /\ gil = {t} /\ save[t] = {}

\* The capture buffers while every product 135 * channels * rate * 2 computed
\* so far fits in an int: the statements of C19 hold.
NoOverrunWithinInt ==
    /\ ProductFits(av.channels, av.sample_rate) =>
           /\ ~ av.overrun /\ av.written <= av.allocated
           /\ av.buffer_ptr + av.buffer_size = av.initial
    /\ ProductFits(gst.channels, gst.srate) =>
           /\ gst.audio_buffer_size >= 0 /\ ~ gst.overrun
           /\ gst.copied <= gst.audio_buffer
    /\ ds.bytes >= 0 =>
           ds.bytesLeft >= 0 /\ ~ ds.overrun /\ ds.copied <= ds.allocated

\* C19 (capture buffers are never overrun): in avcodec's decode no write goes
\* past the block allocated for the buffer, (buffer_ptr - buffer) +
\* buffer_size stays the buffer_size computed at line 283, the capacity handed
\* to the decoder is the space left in the block, and the inner loop runs only
\* while buffer_size > 0; in handoff_cb and BufferCB the count of bytes left
\* is never negative and the bytes copied never exceed the size allocated.
C19_NoOverrun ==
    /\ ~ av.overrun /\ av.written <= av.allocated
    /\ av.buffer_ptr + av.buffer_size = av.initial
    /\ \A t \in Threads :
           pc[t] = "V295" =>
               /\ av.buffer_size > 0
               /\ av.buffer_size + AVCODEC_MAX_AUDIO_FRAME_SIZE
                      = av.allocated - av.buffer_ptr
    /\ gst.audio_buffer_size >= 0 /\ ~ gst.overrun
    /\ gst.copied <= gst.audio_buffer
    /\ ds.running => ds.bytesLeft >= 0
    /\ ~ ds.overrun /\ ds.copied <= ds.allocated

\* C20 (an exit request is never lost): once handoff_cb or sync_handler has
\* set exit_loop to TRUE, or EOS or ERROR has been posted after the pipeline
\* was set to PLAYING, gstreamer_decode eventually returns (or the process has
\* ended).
C20_ExitNeverLost ==
    (gst.requested \/ gst.ended) ~> (pc[1] \in {"done", "fault"})

====
